---- MODULE Spec2Model ----
(***************************************************************************)
(* A model of the synchronisation core of kj-pintos: counting semaphores,  *)
(* locks with priority donation and condition variables                    *)
(* (src/pintos/threads/synch.c) and the tick counter with timer_sleep      *)
(* (src/pintos/devices/timer.c), on a uniprocessor whose only mutual       *)
(* exclusion is disabling interrupts.                                      *)
(*                                                                         *)
(* Every interrupt-disabled section of the source is one step of the       *)
(* model.  A section that suspends the caller (thread_block, thread_yield) *)
(* ends the step with the caller parked at a program position from which   *)
(* it continues, still with interrupts off, when it is dispatched again.   *)
(* Between two steps of the running thread taken with interrupts on, the   *)
(* timer interrupt may fire.                                               *)
(*                                                                         *)
(* The scheduler (threads/thread.c) and the list library                   *)
(* (lib/kernel/list.c) are not part of the sources at hand; the operators  *)
(* that stand for them follow sections 3 and 4.B-4.C of the specification. *)
(***************************************************************************)
EXTENDS Integers, Sequences, FiniteSets, TLC

\* ------------------------------------------------------------------ bounds
NumThreads == 4
LockThreads == 3
NumLocks == 2
MaxTicks == 2
MaxSleep == 2
MaxSemaInit == 1
MaxSemaValue == 2
MaxOps == 4
MaxOpsAll == 3
AllThreads == 2
MaxAsleep == 1
MaxRounds == 2
MaxOpsSema == 5
CondThreads == 3
MaxOpsCond == 6
IntrThreads == 2
MaxOpsIntr == 5
TimerThreads == 3
UpThreads == 3
MaxOpsUp == 3
DonateThreads == 3
MaxOpsDonate == 6
MaxOpsTimer == 4
ProcThreads == 3
MaxOpsProc == 4

\* lock->holder = NULL, thread->wait_on_lock = NULL; also "no thread".
NULL == 0

Threads == 1..NumThreads
Locks == 1..NumLocks

\* Semaphore identities: the semaphore embedded in lock l, the one free-standing
\* semaphore, the private semaphore of thread t's semaphore_elem in cond_wait,
\* and thread t's wait_sema, reap_sema and fork_sema.
LockSema(l) == l
UserSema == NumLocks + 1
CondSema(t) == NumLocks + 1 + t
WaitSema(t) == NumLocks + 1 + NumThreads + t
ReapSema(t) == NumLocks + 1 + 2 * NumThreads + t
ForkSema(t) == NumLocks + 1 + 3 * NumThreads + t
Semas == 1..(NumLocks + 1 + 4 * NumThreads)

VARIABLES
  status,             \* thread->status
  priority,           \* thread->priority: the effective priority
  original_priority,  \* thread->original_priority: the base priority
  wait_on_lock,       \* thread->wait_on_lock
  holding_locks,      \* the links of every thread->holding_locks list and of
                      \* every lock->lock_elem
  wakeup_tick,        \* the tick a sleeping thread is to be woken at
  ready_list,         \* the scheduler's ready queue
  sleep_list,         \* the scheduler's sleeper queue
  ticks,              \* timer.c: ticks
  value,              \* semaphore->value
  waiters,            \* semaphore->waiters
  holder,             \* lock->holder
  cond_waiters,       \* condition->waiters: the thread of each semaphore_elem
  pc,                 \* where each thread stands in the operation it is in
  arg,                \* the lock or semaphore that operation is about
  sleep_t0,           \* timer_sleep: the value timer_ticks() returned
  sleep_n,            \* timer_sleep: its argument
  kernel,             \* "ok", "panic" (a failed ASSERT) or "hung"
  owned,              \* history: per lock, the threads whose acquire returned
                      \* and whose matching release has not begun
  arrival,            \* history: per semaphore, its waiters in order of arrival,
                      \* each with the effective priority it was enqueued at
  turn,               \* the predicate of the monitor program (PingPong)
  stage,              \* each thread's place in the monitor program
  rounds,             \* each thread's completed rounds of the monitor program
  irq,                \* the interrupt handler in progress and its position;
                      \* "none" in thread context
  noted,              \* history: what was seen at the call of one lock_acquire,
                      \* kept until the caller's lock_release of that lock is done
  proc,               \* the process fields of struct thread, the locals of
                      \* process_fork and process_wait, and their history
  tally,              \* history: the records a cond_broadcast found and the
                      \* sema_up calls it made on them, with the thread that
                      \* is inside cond_broadcast and its lock; the value given by a
                      \* thread's sema_init of the free-standing semaphore and
                      \* the sema_up and sema_down calls completed on it since,
                      \* and how often a woken waiter blocked again
  sys,                \* thread->fd_table, and each thread's place in a system
                      \* call handler of userprog/syscall.c with its arguments
  ops                 \* the operations that may still be started

vars == <<status, priority, original_priority, wait_on_lock, holding_locks,
          wakeup_tick, ready_list, sleep_list, ticks, value, waiters, holder,
          cond_waiters, pc, arg, sleep_t0, sleep_n, kernel, owned, arrival,
          turn, stage, rounds, ops, irq, noted, proc, tally, sys>>

\* ----------------------------------------------------------- list library
Range(q) == {q[i] : i \in 1..Len(q)}

SetMax(S) == CHOOSE x \in S : \A y \in S : y <= x

SetMin(S) == CHOOSE x \in S : \A y \in S : x <= y

\* list_remove
Remove(q, x) == SelectSeq(q, LAMBDA y : y # x)

\* History: waiter t arrives with effective priority p; waiter t is unblocked.
Arrives(q, t, p) == Append(q, <<t, p>>)

Departs(q, t) == SelectSeq(q, LAMBDA e : e[1] # t)

\* ------------------------------------------------- the lists of held locks
\* thread->holding_locks is a doubly linked list of the lock_elem of locks.  Its
\* nodes are lock l's lock_elem, numbered l, and the head and the tail of each
\* thread's list; next and prev are the links of every node.
ListHead(t) == NumLocks + t
ListTail(t) == NumLocks + NumThreads + t

\* Every thread's list after list_init, and every lock after lock_init (lines
\* 186-191), which does not touch lock_elem: it has no links.
NoLocksHeld ==
  [next |-> [n \in 1..(NumLocks + 2 * NumThreads) |->
               IF n \in {ListHead(t) : t \in Threads} THEN n + NumThreads ELSE NULL],
   prev |-> [n \in 1..(NumLocks + 2 * NumThreads) |->
               IF n \in {ListTail(t) : t \in Threads} THEN n - NumThreads ELSE NULL]]

\* lock_acquire, line 264: list_push_back (&current->holding_locks,
\* &lock->lock_elem): the element is linked in before the tail,
\*   elem->prev = tail->prev; elem->next = tail;
\*   tail->prev->next = elem; tail->prev = elem.
ListPushBack(h, t, l) ==
  LET prev1 == [h.prev EXCEPT ![l] = h.prev[ListTail(t)]]
      next1 == [h.next EXCEPT ![l] = ListTail(t)]
      next2 == [next1 EXCEPT ![prev1[ListTail(t)]] = l]
      prev2 == [prev1 EXCEPT ![ListTail(t)] = l]
  IN [next |-> next2, prev |-> prev2]

\* lock_release, line 304: list_remove (&lock->lock_elem) joins the two nodes
\* that the element's links name,
\*   elem->prev->next = elem->next; elem->next->prev = elem->prev,
\* and leaves the element's own links as they are.
ListRemove(h, l) ==
  LET next1 == [h.next EXCEPT ![h.prev[l]] = h.next[l]]
      prev1 == [h.prev EXCEPT ![next1[l]] = h.prev[l]]
  IN [next |-> next1, prev |-> prev1]

\* The element has links: it is or was once on a list.
Linked(h, l) == h.prev[l] # NULL /\ h.next[l] # NULL

\* lock_release, lines 312-313: the loop from list_begin to list_end of the
\* caller's list, e = list_next (e).  It ends at the list's tail; links that
\* lead to another list's tail or round a cycle never get there.
RECURSIVE ListWalk(_, _, _, _)
ListWalk(next, n, t, fuel) ==
  IF n = ListTail(t) THEN [locks |-> <<>>, ends |-> "end"]
  ELSE IF n \notin Locks THEN [locks |-> <<>>, ends |-> "stray"]
  ELSE IF fuel = 0 THEN [locks |-> <<>>, ends |-> "cycle"]
  ELSE LET r == ListWalk(next, next[n], t, fuel - 1)
       IN [locks |-> <<n>> \o r.locks, ends |-> r.ends]

HeldWalk(h, t) == ListWalk(h.next, h.next[ListHead(t)], t, NumLocks)

\* compare_priority (a, b): a->priority > b->priority
compare_priority(a, b, pr) == pr[a] > pr[b]

\* list_insert_ordered with compare_priority: before the first element that
\* the new one is strictly above, so after every element of equal priority.
InsertOrdered(q, t, pr) ==
  LET lower == {i \in 1..Len(q) : compare_priority(t, q[i], pr)}
      k == IF lower = {} THEN Len(q) + 1 ELSE SetMin(lower)
  IN SubSeq(q, 1, k - 1) \o <<t>> \o SubSeq(q, k, Len(q))

\* list_sort with compare_priority: a stable sort, highest priority first.
RECURSIVE SortByPriority(_, _)
SortByPriority(q, pr) ==
  IF q = <<>> THEN <<>>
  ELSE InsertOrdered(SortByPriority(SubSeq(q, 1, Len(q) - 1), pr), q[Len(q)], pr)

\* the sleeper queue is kept in ascending wake tick, ties in insertion order
InsertSleeper(q, t, wk) ==
  LET later == {i \in 1..Len(q) : wk[t] < wk[q[i]]}
      k == IF later = {} THEN Len(q) + 1 ELSE SetMin(later)
  IN SubSeq(q, 1, k - 1) \o <<t>> \o SubSeq(q, k, Len(q))

RECURSIVE SortByWake(_, _)
SortByWake(q, wk) ==
  IF q = <<>> THEN <<>>
  ELSE InsertSleeper(SortByWake(SubSeq(q, 1, Len(q) - 1), wk), q[Len(q)], wk)

\* -------------------------------------------------------------- scheduler
\* thread_current (); NULL stands for the idle thread
Cur == IF \E t \in Threads : status[t] = "RUNNING"
       THEN CHOOSE t \in Threads : status[t] = "RUNNING"
       ELSE NULL

\* Positions at which a thread is parked inside an interrupt-disabled section;
\* when it is dispatched there it runs on with interrupts off.
IntrOffPcs ==
  {"sd_blk", "la_blk", "cw_blk", "ts_blk", "lr_y1", "lr_y2", "cw_y1", "cw_y2",
   "pf_blk", "pw_blk", "px_blk"}

IntrEnabled == irq = "none" /\ (IF Cur = NULL THEN TRUE ELSE pc[Cur] \notin IntrOffPcs)

\* schedule (): the head of the ready queue runs; the idle thread if none
Dispatch(st, rl) ==
  IF rl = <<>> THEN [status |-> st, ready |-> rl]
  ELSE [status |-> [st EXCEPT ![Head(rl)] = "RUNNING"], ready |-> Tail(rl)]

\* thread_block ()
BlockCur(st, rl, t) == Dispatch([st EXCEPT ![t] = "BLOCKED"], rl)

\* thread_yield ()
YieldCur(st, rl, t, pr) == Dispatch([st EXCEPT ![t] = "READY"], InsertOrdered(rl, t, pr))

\* should_preempt ()
should_preempt(rl, pr, t) == rl # <<>> /\ pr[Head(rl)] > pr[t]

\* ---------------------------------------------------------------- bodies
\* A sema_down that waits only below zero.
SemaMustWait_BelowZero(v) == v < 0

\* sema_down: while (sema->value == 0)
SemaMustWait(v) == v = 0

\* A sema_try_down that also takes a semaphore at zero.
SemaCanTake_AtZero(v) == v >= 0

\* sema_try_down: if (sema->value > 0)
SemaCanTake(v) == v > 0

\* A sema_up without its list_sort.
SemaUpOrder_Unsorted(q, pr) == q

\* sema_up: list_sort (&sema->waiters, compare_priority, NULL)
SemaUpOrder(q, pr) == SortByPriority(q, pr)

\* A donation that leaves its READY target where it stands in the queue.
ReinsertReady_InPlace(rl, t, pr) == rl

\* A donation that re-inserts its target without the list_remove.
ReinsertReady_NoRemove(rl, t, pr) == InsertOrdered(rl, t, pr)

\* lock_acquire: list_remove (&target->elem); list_insert_ordered (&ready_list, ...)
ReinsertReady(rl, t, pr) == InsertOrdered(Remove(rl, t), t, pr)

\* A donation that stops at the holder.
NextTarget_HolderOnly(target, wol) == NULL

\* lock_acquire: if (target->wait_on_lock) target = target->wait_on_lock->holder
NextTarget(target, wol) == IF wol[target] # NULL THEN holder[wol[target]] ELSE NULL

\* A walk that copies the caller's priority to every thread on its way.
Donates_Always(target_pr, cur_pr) == TRUE

\* lock_acquire, line 233: if (target->priority < current->priority)
Donates(target_pr, cur_pr) == target_pr < cur_pr

\* lock_acquire: the donation walk, while (target) { ... }.  A walk longer than
\* the number of threads has entered a cycle of the wait-for graph and never
\* leaves it: the loop spins with interrupts off.
RECURSIVE DonateWalk(_, _, _, _, _, _)
DonateWalk(cur, target, wol, pr, rl, fuel) ==
  IF target = NULL THEN [priority |-> pr, ready |-> rl, hung |-> FALSE]
  ELSE IF fuel = 0 THEN [priority |-> pr, ready |-> rl, hung |-> TRUE]
  ELSE LET raise == Donates(pr[target], pr[cur])
           pr2 == IF raise THEN [pr EXCEPT ![target] = pr[cur]] ELSE pr
           rl2 == IF raise /\ status[target] = "READY"
                  THEN ReinsertReady(rl, target, pr2) ELSE rl
       IN DonateWalk(cur, NextTarget(target, wol), wol, pr2, rl2, fuel - 1)

\* lock_release without the reset to the base priority
ReleasePriority_NoReset(t, held) ==
  SetMax({priority[t]} \cup
         {priority[w] : w \in UNION {Range(waiters[LockSema(h)]) : h \in Range(held)}})

\* lock_release: the priority the releaser is left with, its base raised to the
\* highest waiter of each lock still on its holding_locks list
ReleasePriority(t, held) ==
  SetMax({original_priority[t]} \cup
         {priority[w] : w \in UNION {Range(waiters[LockSema(h)]) : h \in Range(held)}})

\* A wake-up tick one too early.
WakeUpAt_TickEarly(start, n) == start + n - 1

\* timer_sleep: wake_up_at = timer_ticks () + ticks
WakeUpAt(start, n) == start + n

\* A timer interrupt that wakes the sleepers of the tick before.
WakeupArg_Previous(now) == now - 1

\* timer_interrupt, line 188: thread_wakeup (ticks), after the ticks++ of line 186
WakeupArg(now) == now

\* thread_wakeup (now): the sleepers that are due
Due(now) == SelectSeq(sleep_list, LAMBDA t : wakeup_tick[t] <= now)

RECURSIVE UnblockAll(_, _, _)
UnblockAll(q, rl, pr) ==
  IF q = <<>> THEN rl ELSE UnblockAll(Tail(q), InsertOrdered(rl, Head(q), pr), pr)

\* ------------------------------------------------------------------ Init
\* No lock_acquire is being followed.
NothingNoted ==
  [phase |-> "none", t |-> NULL, l |-> NULL, pri |-> [u \in Threads |-> 0],
   hold |-> [l \in Locks |-> NULL], wt |-> [l \in Locks |-> {}], kept |-> {}]

\* tid_t: a thread's id is its number; TID_ERROR is no thread's id.
TID_ERROR == -1

\* FDT_SIZE of thread.h, of which slots 0 and 1 are the standard streams.
FdtSize == 3

\* The struct file filesys_open returns for a name, as a non-NULL handle.
FileOf(name) == IF name = "a" THEN 1 ELSE 2

\* thread->fd_table == NULL: the thread has no fd_table.
NoTable == <<>>

\* The state of the system call layer after boot: every fd_table empty and
\* every thread in user mode.
NoSyscalls ==
  [fd_table |-> [t \in Threads |-> [fd \in 2..(FdtSize - 1) |-> NULL]],
   at |-> [t \in Threads |-> "user"],
   call |-> [t \in Threads |-> <<"none", 0, "">>],
   ret |-> [t \in Threads |-> 0]]

\* Nothing counted yet, and no sema_init called by a thread.
NothingTallied ==
  [records |-> {}, upped |-> [t \in Threads |-> 0], caster |-> NULL, lock |-> NULL,
   init |-> 0, ups |-> 0, downs |-> 0, again |-> 0]

\* No process has forked, waited or exited: every thread is without parent and
\* children.
NoProcesses ==
  [parent |-> [t \in Threads |-> NULL],
   children |-> [t \in Threads |-> <<>>],
   exit_status |-> [t \in Threads |-> 0],
   fork_success |-> [t \in Threads |-> FALSE],
   child |-> [t \in Threads |-> NULL],
   ret |-> [t \in Threads |-> 0],
   copied |-> [t \in Threads |-> "none"],
   slot |-> [t \in Threads |-> 0],
   call |-> [t \in Threads |-> <<"none", 0, "">>],
   waited |-> {},
   exited |-> {}]

\* Threads are numbered in creation order; the first m are created.  Priorities
\* are only compared and copied, and every thread runs the same code, so the
\* base priorities are taken non-decreasing in creation order and without gaps:
\* no case is lost.
BasePriorities(m) ==
  {f \in [Threads -> 1..NumThreads] :
     /\ f[1] = 1
     /\ \A a \in Threads \ {1} :
          IF a <= m THEN f[a] - f[a - 1] \in {0, 1} ELSE f[a] = 1}

InitReady(pr, m) == SortByPriority([i \in 1..m |-> i], pr)

\* The state after boot with m threads created, in which the first k threads to
\* run have each called timer_sleep (wk[t]) at tick 0 and are asleep, so that
\* the threads of lower priority run before them; the free-standing semaphore
\* starts at v, and n operations are left to start.
BootedKernel(m, k, wk, v, n) ==
  /\ original_priority \in BasePriorities(m)
  /\ priority = original_priority
  /\ LET order == InitReady(original_priority, m)
         sleepers == SubSeq(order, 1, k)
         rest == SubSeq(order, k + 1, m)
     IN /\ status = [t \in Threads |->
                       IF t > m THEN "NONE"
                       ELSE IF t \in Range(sleepers) THEN "BLOCKED"
                       ELSE IF t = Head(rest) THEN "RUNNING" ELSE "READY"]
        /\ ready_list = Tail(rest)
        /\ wakeup_tick = [t \in Threads |-> IF t \in Range(sleepers) THEN wk[t] ELSE 0]
        /\ sleep_list = SortByWake(sleepers, wk)
        /\ pc = [t \in Threads |-> IF t \in Range(sleepers) THEN "ts_blk" ELSE "idle"]
        /\ sleep_n = [t \in Threads |-> IF t \in Range(sleepers) THEN wk[t] ELSE 0]
  /\ wait_on_lock = [t \in Threads |-> NULL]
  /\ holding_locks = NoLocksHeld
  /\ ticks = 0
  /\ value = [s \in Semas |-> IF s \in Locks THEN 1 ELSE IF s = UserSema THEN v ELSE 0]
  /\ waiters = [s \in Semas |-> <<>>]
  /\ holder = [l \in Locks |-> NULL]
  /\ cond_waiters = <<>>
  /\ arg = [t \in Threads |-> NULL]
  /\ sleep_t0 = [t \in Threads |-> 0]
  /\ kernel = "ok"
  /\ irq = "none"
  /\ owned = [l \in Locks |-> {}]
  /\ arrival = [s \in Semas |-> <<>>]
  /\ turn = 1
  /\ stage = [t \in Threads |-> "start"]
  /\ rounds = [t \in Threads |-> 0]
  /\ noted = NothingNoted
  /\ proc = NoProcesses
  /\ tally = NothingTallied
  /\ ops = n

\* The same, with every thread a process that has its fd_table (process_exec,
\* process.c lines 242-243) and no file open.
Booted(m, k, wk, v, n) == BootedKernel(m, k, wk, v, n) /\ sys = NoSyscalls

\* Sleep durations for the threads asleep at boot (threads not created: 1).
WakeTicks(m) == {wk \in [Threads -> 1..MaxSleep] : \A t \in Threads : t > m => wk[t] = 1}

\* Two threads, any operation: the first to run may be asleep at boot.
Init ==
  \E v \in 0..MaxSemaInit : \E k \in 0..MaxAsleep : \E wk \in WakeTicks(AllThreads) :
    Booted(AllThreads, k, wk, v, MaxOpsAll)

\* A thread takes a step only while it is the running thread of a live kernel.
Runs(t, at) == kernel = "ok" /\ irq = "none" /\ status[t] = "RUNNING" /\ pc[t] = at

RunsIn(t, places) ==
  kernel = "ok" /\ irq = "none" /\ status[t] = "RUNNING" /\ pc[t] \in places

program == <<turn, stage, rounds, noted, proc, tally, sys>>

\* A thread between two operations starts another one, while any are left.
Starts(t) ==
  /\ Runs(t, "idle")
  /\ ops > 0
  /\ ops' = ops - 1

\* The timer's and the interrupt handlers' state.
timer == <<wakeup_tick, sleep_list, ticks, sleep_t0, sleep_n, irq>>

\* ------------------------------------------------------------- semaphores
\* sema_down, lines 67-74: one pass of the loop under intr_disable ().  With the
\* value at 0 the caller is put on the waiter list and blocks, parked at blk
\* inside the loop; otherwise it takes the value and goes on at done.
DoSemaDown(t, s, blk, done) ==
  IF SemaMustWait(value[s])
  THEN LET b == BlockCur(status, ready_list, t)
       IN /\ waiters' = [waiters EXCEPT ![s] = InsertOrdered(@, t, priority)]
          /\ arrival' = [arrival EXCEPT ![s] = Arrives(@, t, priority[t])]
          /\ status' = b.status
          /\ ready_list' = b.ready
          /\ pc' = [pc EXCEPT ![t] = blk]
          /\ UNCHANGED value
  ELSE /\ value' = [value EXCEPT ![s] = @ - 1]
       /\ pc' = [pc EXCEPT ![t] = done]
       /\ UNCHANGED <<waiters, arrival, status, ready_list>>

\* A sema_up that unblocks the front waiter and leaves it on the list.
WakeFirst_LeavesListed(s, pr, st, rl) ==
  LET sorted == SemaUpOrder(waiters[s], pr)
  IN IF sorted = <<>>
     THEN [queue |-> sorted, woken |-> NULL, status |-> st, ready |-> rl]
     ELSE [queue |-> sorted, woken |-> Head(sorted),
           status |-> [st EXCEPT ![Head(sorted)] = "READY"],
           ready |-> InsertOrdered(rl, Head(sorted), pr)]

\* sema_up, lines 112-121: sort the waiters, unblock the first
WakeFirst(s, pr, st, rl) ==
  LET sorted == SemaUpOrder(waiters[s], pr)
  IN IF sorted = <<>>
     THEN [queue |-> sorted, woken |-> NULL, status |-> st, ready |-> rl]
     ELSE [queue |-> Tail(sorted), woken |-> Head(sorted),
           status |-> [st EXCEPT ![Head(sorted)] = "READY"],
           ready |-> InsertOrdered(rl, Head(sorted), pr)]

\* A sema_up without its increment.
SemaUpValue_Forgotten(v) == v

\* sema_up, line 121: sema->value++
SemaUpValue(v) == v + 1

\* sema_up, lines 112-122, on semaphore s by thread t, which goes on at next
DoSemaUp(t, s, next) ==
  LET u == WakeFirst(s, priority, status, ready_list)
  IN /\ waiters' = [waiters EXCEPT ![s] = u.queue]
     /\ arrival' = [arrival EXCEPT ![s] = Departs(@, u.woken)]
     /\ value' = [value EXCEPT ![s] = SemaUpValue(@)]
     /\ status' = u.status
     /\ ready_list' = u.ready
     /\ pc' = [pc EXCEPT ![t] = next]

\* sema_down (&sema) on the free-standing semaphore
SemaDown(t) ==
  /\ Starts(t)
  /\ DoSemaDown(t, UserSema, "sd_blk", "idle")
  /\ UNCHANGED <<priority, original_priority, wait_on_lock, holding_locks, holder,
                 cond_waiters, arg, kernel, owned, timer, program>>

\* sema_down: the loop again, after the waiter was unblocked
SemaDownLoop(t) ==
  /\ Runs(t, "sd_blk")
  /\ UNCHANGED ops
  /\ DoSemaDown(t, UserSema, "sd_blk", "idle")
  /\ UNCHANGED <<priority, original_priority, wait_on_lock, holding_locks, holder,
                 cond_waiters, arg, kernel, owned, timer, program>>

\* sema_try_down (&sema)
SemaTryDown(t) ==
  /\ Starts(t)
  /\ value' = IF SemaCanTake(value[UserSema])
              THEN [value EXCEPT ![UserSema] = @ - 1] ELSE value
  /\ UNCHANGED <<status, priority, original_priority, wait_on_lock, holding_locks,
                 ready_list, waiters, holder, cond_waiters, pc, arg, kernel, owned,
                 arrival, timer, program>>

\* sema_up (&sema), lines 112-122; the preemption test follows with interrupts on
SemaUp(t) ==
  /\ Starts(t)
  /\ value[UserSema] < MaxSemaValue
  /\ DoSemaUp(t, UserSema, "su_chk")
  /\ UNCHANGED <<priority, original_priority, wait_on_lock, holding_locks, holder,
                 cond_waiters, arg, kernel, owned, timer, program>>

\* sema_up returning without the preemption test
SemaUpPreempt_NoYield(t) ==
  /\ Runs(t, "su_chk")
  /\ pc' = [pc EXCEPT ![t] = "idle"]
  /\ UNCHANGED <<status, priority, original_priority, wait_on_lock, holding_locks,
                 ready_list, value, waiters, holder, cond_waiters, arg, kernel, owned,
                 arrival, timer, program, ops>>

\* sema_up, line 129: if (should_preempt ()), with interrupts on; a caller
\* that finds a higher thread at the head of the ready queue goes on to
\* thread_yield ()
SemaUpPreempt(t) ==
  /\ Runs(t, "su_chk")
  /\ UNCHANGED ops
  /\ pc' = [pc EXCEPT ![t] = IF should_preempt(ready_list, priority, t)
                             THEN "su_yld" ELSE "idle"]
  /\ UNCHANGED <<status, ready_list, priority, original_priority, wait_on_lock,
                 holding_locks, value, waiters, holder, cond_waiters, arg, kernel,
                 owned, arrival, timer, program>>

\* sema_up, line 130: thread_yield (), whatever the ready queue holds by now
SemaUpYield(t) ==
  /\ Runs(t, "su_yld")
  /\ UNCHANGED ops
  /\ LET y == YieldCur(status, ready_list, t, priority)
     IN status' = y.status /\ ready_list' = y.ready
  /\ pc' = [pc EXCEPT ![t] = "idle"]
  /\ UNCHANGED <<priority, original_priority, wait_on_lock, holding_locks, value,
                 waiters, holder, cond_waiters, arg, kernel, owned, arrival, timer,
                 program>>

\* ------------------------------------------------------------------ locks
\* lock_held_by_current_thread (lock): lock->holder == thread_current ()
lock_held_by_current_thread(l, t) == holder[l] = t

\* A donation walk that writes the donated priority into the base priority too.
BaseAfterDonation_Raised(base, pr) == pr

\* lock_acquire, lines 231-249: the walk assigns target->priority only; no
\* statement assigns original_priority
BaseAfterDonation(base, pr) == base

\* lock_acquire, lines 224-251: note the lock waited on and donate along the chain
DoLockAcquire(t, l) ==
  /\ arg' = [arg EXCEPT ![t] = l]
  /\ IF holder[l] # NULL
     THEN LET wol == [wait_on_lock EXCEPT ![t] = l]
              d == DonateWalk(t, holder[l], wol, priority, ready_list, NumThreads + 1)
          IN /\ wait_on_lock' = wol
             /\ priority' = d.priority
             /\ original_priority' = BaseAfterDonation(original_priority, d.priority)
             /\ ready_list' = d.ready
             /\ kernel' = IF d.hung THEN "hung" ELSE kernel
             /\ pc' = [pc EXCEPT ![t] = IF d.hung THEN "la_spin" ELSE "la_sd"]
     ELSE /\ pc' = [pc EXCEPT ![t] = "la_sd"]
          /\ UNCHANGED <<wait_on_lock, priority, original_priority, ready_list, kernel>>
  /\ UNCHANGED <<status, holding_locks, value, waiters, holder, cond_waiters, owned,
                 arrival, timer>>

\* lock_acquire (lock), lines 216-218, the caller not holding the lock: the
\* assertions pass, with interrupts on
LockAcquireOp(t, l) ==
  /\ Runs(t, "idle")
  /\ ~lock_held_by_current_thread(l, t)
  /\ pc' = [pc EXCEPT ![t] = "la_in"]
  /\ arg' = [arg EXCEPT ![t] = l]
  /\ UNCHANGED <<status, priority, original_priority, wait_on_lock, holding_locks,
                 ready_list, value, waiters, holder, cond_waiters, kernel, owned,
                 arrival, timer>>

LockAcquire(t, l) == LockAcquireOp(t, l) /\ ops > 0 /\ ops' = ops - 1 /\ UNCHANGED program

\* lock_acquire, lines 224-252: the section under intr_disable (), whoever
\* holds the lock by now
LockAcquireEnterOp(t) ==
  /\ Runs(t, "la_in")
  /\ DoLockAcquire(t, arg[t])

LockAcquireEnter(t) == LockAcquireEnterOp(t) /\ UNCHANGED <<program, ops>>

\* lock_acquire, line 255: sema_down (&lock->semaphore), first pass or again
LockAcquireDown(t) ==
  /\ RunsIn(t, {"la_sd", "la_blk"})
  /\ UNCHANGED ops
  /\ DoSemaDown(t, LockSema(arg[t]), "la_blk", "la_fin")
  /\ UNCHANGED <<priority, original_priority, wait_on_lock, holding_locks, holder,
                 cond_waiters, arg, kernel, owned, timer, program>>

\* lock_acquire, lines 259-265: the caller becomes the holder
LockAcquireFinish(t) ==
  /\ Runs(t, "la_fin")
  /\ UNCHANGED ops
  /\ wait_on_lock' = [wait_on_lock EXCEPT ![t] = NULL]
  /\ holder' = [holder EXCEPT ![arg[t]] = t]
  /\ holding_locks' = ListPushBack(holding_locks, t, arg[t])
  /\ owned' = [owned EXCEPT ![arg[t]] = @ \cup {t}]
  /\ pc' = [pc EXCEPT ![t] = "idle"]
  /\ arg' = [arg EXCEPT ![t] = NULL]
  /\ UNCHANGED <<status, priority, original_priority, ready_list, value, waiters,
                 cond_waiters, kernel, arrival, timer, program>>

\* lock_try_acquire (lock), lines 278-279, the caller not holding the lock: the
\* assertions pass, with interrupts on
LockTryAcquire(t, l) ==
  /\ Starts(t)
  /\ ~lock_held_by_current_thread(l, t)
  /\ pc' = [pc EXCEPT ![t] = "lt_in"]
  /\ arg' = [arg EXCEPT ![t] = l]
  /\ UNCHANGED <<status, priority, original_priority, wait_on_lock, holding_locks,
                 ready_list, value, waiters, holder, cond_waiters, kernel, owned,
                 arrival, timer, program>>

\* lock_try_acquire, line 281: sema_try_down (&lock->semaphore)
LockTryAcquireDown(t) ==
  /\ Runs(t, "lt_in")
  /\ UNCHANGED ops
  /\ IF SemaCanTake(value[LockSema(arg[t])])
     THEN /\ value' = [value EXCEPT ![LockSema(arg[t])] = @ - 1]
          /\ pc' = [pc EXCEPT ![t] = "lt_set"]
          /\ UNCHANGED arg
     ELSE /\ pc' = [pc EXCEPT ![t] = "idle"]
          /\ arg' = [arg EXCEPT ![t] = NULL]
          /\ UNCHANGED value
  /\ UNCHANGED <<status, priority, original_priority, wait_on_lock, holding_locks,
                 ready_list, waiters, holder, cond_waiters, kernel, owned, arrival,
                 timer, program>>

\* lock_try_acquire, lines 282-284: lock->holder = thread_current (); the lock
\* is not put on the caller's holding_locks list
LockTryAcquireSet(t) ==
  /\ Runs(t, "lt_set")
  /\ UNCHANGED ops
  /\ holder' = [holder EXCEPT ![arg[t]] = t]
  /\ owned' = [owned EXCEPT ![arg[t]] = @ \cup {t}]
  /\ pc' = [pc EXCEPT ![t] = "idle"]
  /\ arg' = [arg EXCEPT ![t] = NULL]
  /\ UNCHANGED <<status, priority, original_priority, wait_on_lock, holding_locks,
                 ready_list, value, waiters, cond_waiters, kernel, arrival, timer,
                 program>>

\* lock_release, lines 304-345, with the lists of held locks left as h:
\* recompute the priority from the locks on the caller's list, give the lock up,
\* sema_up, and yield if a higher thread is ready.  The section runs with
\* interrupts off throughout; a caller that yields is parked at y1 and otherwise
\* goes on at done.
ReleaseBody(t, l, h, y1, done) ==
  LET pr2 == [priority EXCEPT ![t] = ReleasePriority(t, HeldWalk(h, t).locks)]
      u == WakeFirst(LockSema(l), pr2, status, ready_list)
      pre == should_preempt(u.ready, pr2, t)
      y == YieldCur(u.status, u.ready, t, pr2)
  IN /\ holding_locks' = h
     /\ priority' = pr2
     /\ holder' = [holder EXCEPT ![l] = NULL]
     /\ owned' = [owned EXCEPT ![l] = @ \ {t}]
     /\ waiters' = [waiters EXCEPT ![LockSema(l)] = u.queue]
     /\ arrival' = [arrival EXCEPT ![LockSema(l)] = Departs(@, u.woken)]
     /\ value' = [value EXCEPT ![LockSema(l)] = SemaUpValue(@)]
     /\ status' = IF pre THEN y.status ELSE u.status
     /\ ready_list' = IF pre THEN y.ready ELSE u.ready
     /\ pc' = [pc EXCEPT ![t] = IF pre THEN y1 ELSE done]
     /\ UNCHANGED kernel

\* lock_release, line 304: list_remove (&lock->lock_elem).  The element of a
\* lock taken by lock_try_acquire is not on the caller's list.  If it was never
\* on a list its links are not initialised: the removal reads them, and either
\* the kernel stops or every list is left as it was.  If it was, it kept the
\* links of its last lock_acquire and the removal writes through them, whatever
\* stands between the two nodes they name now.  The loop of lines 312-313 then
\* runs over the caller's list as the removal left it: at another list's tail
\* list_next fails its assertion, and round a cycle the loop does not end.
DoLockRelease(t, l, y1, done) ==
  IF ~Linked(holding_locks, l)
  THEN \E outcome \in {"panic", "unlinked"} :
         IF outcome = "panic"
         THEN /\ kernel' = "panic"
              /\ UNCHANGED <<holding_locks, priority, holder, owned, waiters, arrival,
                             value, status, ready_list, pc>>
         ELSE ReleaseBody(t, l, holding_locks, y1, done)
  ELSE LET h == ListRemove(holding_locks, l)
           w == HeldWalk(h, t)
       IN IF w.ends = "end"
          THEN ReleaseBody(t, l, h, y1, done)
          ELSE /\ kernel' = IF w.ends = "cycle" THEN "hung" ELSE "panic"
               /\ holding_locks' = h
               /\ priority' = [priority EXCEPT ![t] = ReleasePriority(t, w.locks)]
               /\ UNCHANGED <<holder, owned, waiters, arrival, value, status,
                              ready_list, pc>>

\* lock_release, lines 344-348, for a caller that yielded inside the section
DoReleaseResume(t, y2, done) ==
  LET pre == pc[t] # y2 /\ should_preempt(ready_list, priority, t)
      y == YieldCur(status, ready_list, t, priority)
  IN /\ status' = IF pre THEN y.status ELSE status
     /\ ready_list' = IF pre THEN y.ready ELSE ready_list
     /\ pc' = [pc EXCEPT ![t] = IF pre THEN y2 ELSE done]

\* lock_release (lock), lines 295-296, the caller holding the lock: the
\* assertions pass, with interrupts on
LockReleaseOp(t, l) ==
  /\ Runs(t, "idle")
  /\ lock_held_by_current_thread(l, t)
  /\ pc' = [pc EXCEPT ![t] = "lr_in"]
  /\ arg' = [arg EXCEPT ![t] = l]
  /\ UNCHANGED <<status, priority, original_priority, wait_on_lock, holding_locks,
                 ready_list, value, waiters, holder, cond_waiters, kernel, owned,
                 arrival, timer>>

LockRelease(t, l) == LockReleaseOp(t, l) /\ ops > 0 /\ ops' = ops - 1 /\ UNCHANGED program

\* lock_release, lines 298-346: the section under intr_disable (), whoever
\* holds the lock by now
LockReleaseEnterOp(t) ==
  /\ Runs(t, "lr_in")
  /\ DoLockRelease(t, arg[t], "lr_y1", "idle")
  /\ arg' = IF kernel' = "ok" THEN [arg EXCEPT ![t] = NULL] ELSE arg
  /\ UNCHANGED <<original_priority, wait_on_lock, cond_waiters, timer>>

LockReleaseEnter(t) == LockReleaseEnterOp(t) /\ UNCHANGED <<program, ops>>

LockReleaseResume(t) ==
  /\ RunsIn(t, {"lr_y1", "lr_y2"})
  /\ UNCHANGED ops
  /\ DoReleaseResume(t, "lr_y2", "idle")
  /\ UNCHANGED <<priority, original_priority, wait_on_lock, holding_locks, value,
                 waiters, holder, cond_waiters, arg, kernel, owned, arrival, timer,
                 program>>

\* ---------------------------------------------------- condition variables
\* cond_wait (&cond, lock), lines 417-420, the caller holding the lock: the
\* assertions pass, with interrupts on
CondWaitOp(t, l) ==
  /\ Runs(t, "idle")
  /\ lock_held_by_current_thread(l, t)
  /\ pc' = [pc EXCEPT ![t] = "cw_push"]
  /\ arg' = [arg EXCEPT ![t] = l]
  /\ UNCHANGED <<status, priority, original_priority, wait_on_lock, holding_locks,
                 ready_list, value, waiters, holder, cond_waiters, kernel, owned,
                 arrival, timer>>

\* cond_wait, lines 422-423: sema_init (&waiter.semaphore, 0) and
\* list_push_back (&cond->waiters, &waiter.elem), whoever holds the lock by now
CondWaitPush(t) ==
  /\ Runs(t, "cw_push")
  /\ value' = [value EXCEPT ![CondSema(t)] = 0]
  /\ waiters' = [waiters EXCEPT ![CondSema(t)] = <<>>]
  /\ cond_waiters' = Append(cond_waiters, t)
  /\ pc' = [pc EXCEPT ![t] = "cw_rel"]
  /\ UNCHANGED <<status, priority, original_priority, wait_on_lock, holding_locks,
                 ready_list, holder, arg, kernel, owned, arrival, timer, program, ops>>

\* cond_wait, line 424: lock_release (lock) is called; its assertion of line
\* 296 stops the kernel if the caller does not hold the lock any more
CondWaitRelease(t) ==
  /\ Runs(t, "cw_rel")
  /\ IF lock_held_by_current_thread(arg[t], t)
     THEN pc' = [pc EXCEPT ![t] = "cw_rin"] /\ UNCHANGED kernel
     ELSE kernel' = "panic" /\ UNCHANGED pc
  /\ UNCHANGED <<status, priority, original_priority, wait_on_lock, holding_locks,
                 ready_list, value, waiters, holder, cond_waiters, arg, owned, arrival,
                 timer, program, ops>>

\* cond_wait going on to sema_down with the lock still held
CondWaitReleaseEnter_KeepsLock(t) ==
  /\ Runs(t, "cw_rin")
  /\ pc' = [pc EXCEPT ![t] = "cw_sd"]
  /\ UNCHANGED <<status, priority, original_priority, wait_on_lock, holding_locks,
                 ready_list, value, waiters, holder, cond_waiters, arg, kernel, owned,
                 arrival, timer, program, ops>>

\* cond_wait, line 424: lock_release, lines 298-346, the section under
\* intr_disable ()
CondWaitReleaseEnter(t) ==
  /\ Runs(t, "cw_rin")
  /\ DoLockRelease(t, arg[t], "cw_y1", "cw_sd")
  /\ UNCHANGED <<original_priority, wait_on_lock, cond_waiters, arg, timer, program, ops>>

CondWaitReleaseResume(t) ==
  /\ RunsIn(t, {"cw_y1", "cw_y2"})
  /\ DoReleaseResume(t, "cw_y2", "cw_sd")
  /\ UNCHANGED <<priority, original_priority, wait_on_lock, holding_locks, value,
                 waiters, holder, cond_waiters, arg, kernel, owned, arrival, timer,
                 program, ops>>

\* cond_wait, line 425: sema_down (&waiter.semaphore), first pass or again
CondWaitDown(t) ==
  /\ RunsIn(t, {"cw_sd", "cw_blk"})
  /\ DoSemaDown(t, CondSema(t), "cw_blk", "cw_la")
  /\ UNCHANGED <<priority, original_priority, wait_on_lock, holding_locks, holder,
                 cond_waiters, arg, kernel, owned, timer, program, ops>>

\* cond_wait, line 426: lock_acquire (lock) is called; its assertion of line
\* 218 stops the kernel if the caller holds the lock already.  The call goes on
\* as every lock_acquire does.
CondWaitAcquire(t) ==
  /\ Runs(t, "cw_la")
  /\ IF lock_held_by_current_thread(arg[t], t)
     THEN kernel' = "panic" /\ UNCHANGED pc
     ELSE pc' = [pc EXCEPT ![t] = "la_in"] /\ UNCHANGED kernel
  /\ UNCHANGED <<status, priority, original_priority, wait_on_lock, holding_locks,
                 ready_list, value, waiters, holder, cond_waiters, arg, owned, arrival,
                 timer, program, ops>>

\* compare_cond_waiter_priority reads list_front (&sema->waiters) of both
\* records; list_front asserts that the list is not empty.  list_sort compares
\* every record with a neighbour as soon as there are two.
SortAsserts(q) == Len(q) >= 2 /\ \E i \in 1..Len(q) : waiters[CondSema(q[i])] = <<>>

\* cond_signal, line 445: list_sort (&cond->waiters, compare_cond_waiter_priority);
\* the front waiter of a record's semaphore is the thread of the record
CondSignalOrder(q, pr) == SortByPriority(q, pr)

\* Where a thread goes on when its cond_signal returns: in the loop of
\* cond_broadcast if it is inside that function, between two operations
\* otherwise.
SignalReturns(t) == IF tally.caster = t THEN "cb_loop" ELSE "idle"

\* cond_signal (&cond, lock), lines 438-441, the caller holding the lock: the
\* assertions pass, with interrupts on
CondSignalOp(t, l) ==
  /\ Runs(t, "idle")
  /\ lock_held_by_current_thread(l, t)
  /\ pc' = [pc EXCEPT ![t] = "cs_test"]
  /\ UNCHANGED <<status, priority, original_priority, wait_on_lock, holding_locks,
                 ready_list, value, waiters, holder, cond_waiters, arg, kernel, owned,
                 arrival, timer>>

\* cond_signal, line 443: if (!list_empty (&cond->waiters)); with no record
\* the function returns
CondSignalTest(t) ==
  /\ Runs(t, "cs_test")
  /\ pc' = [pc EXCEPT ![t] = IF cond_waiters = <<>> THEN SignalReturns(t) ELSE "cs_sort"]
  /\ UNCHANGED <<status, priority, original_priority, wait_on_lock, holding_locks,
                 ready_list, value, waiters, holder, cond_waiters, arg, kernel, owned,
                 arrival, timer, program, ops>>

\* cond_signal, line 445: list_sort of the records that are on cond->waiters
\* by now
CondSignalSort(t) ==
  /\ Runs(t, "cs_sort")
  /\ IF SortAsserts(cond_waiters)
     THEN kernel' = "panic" /\ UNCHANGED <<cond_waiters, pc>>
     ELSE /\ cond_waiters' = CondSignalOrder(cond_waiters, priority)
          /\ pc' = [pc EXCEPT ![t] = "cs_pop"]
          /\ UNCHANGED kernel
  /\ UNCHANGED <<status, priority, original_priority, wait_on_lock, holding_locks,
                 ready_list, value, waiters, holder, arg, owned, arrival, timer,
                 program, ops>>

\* A cond_signal that hands the lock to the waiter whose record it takes.
CondSignalPop_HandsOver(t) ==
  /\ Runs(t, "cs_pop")
  /\ cond_waiters # <<>>
  /\ cond_waiters' = Tail(cond_waiters)
  /\ pc' = [pc EXCEPT ![t] = "cs_up"]
  /\ arg' = [arg EXCEPT ![t] = Head(cond_waiters)]
  /\ holder' = [l \in Locks |-> IF holder[l] = t THEN Head(cond_waiters) ELSE holder[l]]
  /\ UNCHANGED <<status, priority, original_priority, wait_on_lock, holding_locks,
                 ready_list, value, waiters, kernel, owned, arrival, timer, program,
                 ops>>

\* cond_signal, line 446: list_pop_front (&cond->waiters) takes the first
\* record off, and list_front fails its assertion on a list that is empty by
\* now; arg keeps the thread of the record for the sema_up that follows
CondSignalPop(t) ==
  /\ Runs(t, "cs_pop")
  /\ IF cond_waiters = <<>>
     THEN kernel' = "panic" /\ UNCHANGED <<cond_waiters, pc, arg>>
     ELSE /\ cond_waiters' = Tail(cond_waiters)
          /\ pc' = [pc EXCEPT ![t] = "cs_up"]
          /\ arg' = [arg EXCEPT ![t] = Head(cond_waiters)]
          /\ UNCHANGED kernel
  /\ UNCHANGED <<status, priority, original_priority, wait_on_lock, holding_locks,
                 ready_list, value, waiters, holder, owned, arrival, timer, program,
                 ops>>

\* cond_signal, lines 446-447: sema_up on the semaphore of the record taken
\* off, lines 112-124 of sema_up under intr_disable (); inside cond_broadcast
\* the call is counted and arg is the lock again
CondSignalUp(t) ==
  /\ Runs(t, "cs_up")
  /\ DoSemaUp(t, CondSema(arg[t]), IF tally.caster = t THEN "cb_chk" ELSE "su_chk")
  /\ arg' = [arg EXCEPT ![t] = IF tally.caster = t THEN tally.lock ELSE NULL]
  /\ tally' = IF tally.caster = t THEN [tally EXCEPT !.upped[arg[t]] = @ + 1] ELSE tally
  /\ UNCHANGED <<priority, original_priority, wait_on_lock, holding_locks, holder,
                 cond_waiters, kernel, owned, timer, turn, stage, rounds, noted, proc,
                 sys, ops>>

\* cond_wait (&cond, lock) by the holder of lock
CondWait(t, l) == CondWaitOp(t, l) /\ ops > 0 /\ ops' = ops - 1 /\ UNCHANGED program

\* cond_signal (&cond, lock) by the holder of lock
CondSignal(t, l) == CondSignalOp(t, l) /\ ops > 0 /\ ops' = ops - 1 /\ UNCHANGED program

\* ---------------------------------------------------- the monitor program
\* Two threads take turns under one lock and one condition variable:
\*   lock_acquire (L); while (turn != me) cond_wait (c, L);
\*   turn = other; cond_signal (c, L); lock_release (L);
\* MaxRounds times each.
Other(t) == 3 - t

PPLock(t) ==
  /\ stage[t] = "start" /\ rounds[t] < MaxRounds
  /\ LockAcquireOp(t, 1)
  /\ stage' = [stage EXCEPT ![t] = "locked"]
  /\ UNCHANGED <<turn, rounds, ops, noted, proc, tally, sys>>

PPWait(t) ==
  /\ stage[t] = "locked" /\ turn # t
  /\ CondWaitOp(t, 1)
  /\ UNCHANGED <<program, ops>>

PPTurn(t) ==
  /\ stage[t] = "locked" /\ turn = t
  /\ Runs(t, "idle") /\ holder[1] = t
  /\ turn' = Other(t)
  /\ stage' = [stage EXCEPT ![t] = "signal"]
  /\ UNCHANGED <<status, priority, original_priority, wait_on_lock, holding_locks,
                 ready_list, value, waiters, holder, cond_waiters, pc, arg, kernel,
                 owned, arrival, timer, rounds, ops, noted, proc, tally, sys>>

PPSignal(t) ==
  /\ stage[t] = "signal"
  /\ CondSignalOp(t, 1)
  /\ stage' = [stage EXCEPT ![t] = "unlock"]
  /\ UNCHANGED <<turn, rounds, ops, noted, proc, tally, sys>>

PPUnlock(t) ==
  /\ stage[t] = "unlock"
  /\ LockReleaseOp(t, 1)
  /\ stage' = [stage EXCEPT ![t] = "start"]
  /\ rounds' = [rounds EXCEPT ![t] = @ + 1]
  /\ UNCHANGED <<turn, ops, noted, proc, tally, sys>>

\* ------------------------------------------------ the semaphore self-test
\* sema_self_test and sema_test_helper, lines 139-168: two threads and two
\* semaphores, sema[0] and sema[1].  turn is the thread that runs
\* sema_self_test, the other one runs sema_test_helper; each makes MaxRounds
\* passes of its loop.
SelfTestSema(i) == UserSema + i

\* PRI_DEFAULT, which may lie below, at or above the priority of the thread
\* that runs the self-test.
SelfTestPriDefault == {0, 1, 2}

\* The helper thread_create makes: the first thread not yet created.
SelfTestHelper ==
  IF \E c \in Threads : status[c] = "NONE"
  THEN SetMin({c \in Threads : status[c] = "NONE"})
  ELSE NULL

\* lines 146-148: sema_init (&sema[0], 0); sema_init (&sema[1], 0);
\* thread_create ("sema-test", PRI_DEFAULT, sema_test_helper, &sema), whose
\* result sema_self_test does not look at: it fails, or it makes a READY helper
\* that starts in sema_test_helper, and the caller may give way to it
SelfTestCreate(t) ==
  /\ Runs(t, "idle")
  /\ \A u \in Threads : stage[u] = "start"
  /\ turn' = t
  /\ value' = [value EXCEPT ![SelfTestSema(0)] = 0, ![SelfTestSema(1)] = 0]
  /\ waiters' = [waiters EXCEPT ![SelfTestSema(0)] = <<>>, ![SelfTestSema(1)] = <<>>]
  /\ \E made \in BOOLEAN :
       IF ~made \/ SelfTestHelper = NULL
       THEN /\ stage' = [stage EXCEPT ![t] = "up"]
            /\ UNCHANGED <<status, ready_list, priority, original_priority>>
       ELSE \E p \in SelfTestPriDefault : \E gives \in BOOLEAN :
              LET c == SelfTestHelper
                  pr == [priority EXCEPT ![c] = p]
                  st == [status EXCEPT ![c] = "READY"]
                  rl == InsertOrdered(ready_list, c, pr)
                  y == YieldCur(st, rl, t, pr)
                  pre == gives /\ should_preempt(rl, pr, t)
              IN /\ priority' = pr
                 /\ original_priority' = [original_priority EXCEPT ![c] = p]
                 /\ status' = IF pre THEN y.status ELSE st
                 /\ ready_list' = IF pre THEN y.ready ELSE rl
                 /\ stage' = [stage EXCEPT ![t] = "up", ![c] = "down"]
  /\ UNCHANGED <<wait_on_lock, holding_locks, holder, cond_waiters, pc, arg, kernel,
                 owned, arrival, timer, rounds, noted, proc, tally, sys, ops>>

\* The semaphore a thread raises and the one it waits on.
SelfTestUpSema(t) == IF t = turn THEN SelfTestSema(0) ELSE SelfTestSema(1)

SelfTestDownSema(t) == IF t = turn THEN SelfTestSema(1) ELSE SelfTestSema(0)

\* The call that follows a call in the loop body: the self-test raises and then
\* waits (lines 151-152), the helper waits and then raises (lines 165-166).
SelfTestAfter(t, call) ==
  IF (call = "up") = (t = turn) THEN IF call = "up" THEN "down" ELSE "up"
  ELSE "loop"

\* lines 151 and 166: sema_up
SelfTestUp(t) ==
  /\ Runs(t, "idle") /\ stage[t] = "up"
  /\ DoSemaUp(t, SelfTestUpSema(t), "su_chk")
  /\ stage' = [stage EXCEPT ![t] = SelfTestAfter(t, "up")]
  /\ UNCHANGED <<priority, original_priority, wait_on_lock, holding_locks, holder,
                 cond_waiters, arg, kernel, owned, timer, turn, rounds, noted, proc,
                 tally, sys, ops>>

\* lines 152 and 165: sema_down
SelfTestDown(t) ==
  /\ Runs(t, "idle") /\ stage[t] = "down"
  /\ DoSemaDown(t, SelfTestDownSema(t), "sd_blk", "idle")
  /\ stage' = [stage EXCEPT ![t] = SelfTestAfter(t, "down")]
  /\ UNCHANGED <<priority, original_priority, wait_on_lock, holding_locks, holder,
                 cond_waiters, arg, kernel, owned, timer, turn, rounds, noted, proc,
                 tally, sys, ops>>

\* sema_down: the loop again, after the waiter was unblocked
SelfTestDownLoop(t) ==
  /\ Runs(t, "sd_blk")
  /\ DoSemaDown(t, SelfTestDownSema(t), "sd_blk", "idle")
  /\ UNCHANGED <<priority, original_priority, wait_on_lock, holding_locks, holder,
                 cond_waiters, arg, kernel, owned, timer, program, ops>>

\* lines 149 and 163: i++, i < 10, with MaxRounds for 10
SelfTestLoop(t) ==
  /\ Runs(t, "idle") /\ stage[t] = "loop"
  /\ rounds' = [rounds EXCEPT ![t] = @ + 1]
  /\ stage' = [stage EXCEPT ![t] = IF rounds[t] + 1 >= MaxRounds THEN "done"
                                   ELSE IF t = turn THEN "up" ELSE "down"]
  /\ UNCHANGED <<status, priority, original_priority, wait_on_lock, holding_locks,
                 ready_list, value, waiters, holder, cond_waiters, pc, arg, kernel,
                 owned, arrival, timer, turn, noted, proc, tally, sys, ops>>

\* A thread that is through leaves the processor for good: sema_test_helper
\* returns and its thread ends in thread_exit (), and so in time does the
\* thread that called sema_self_test.  It is DYING and the head of the ready
\* queue runs.
SelfTestExit(t) ==
  /\ Runs(t, "idle") /\ stage[t] = "done"
  /\ LET d == Dispatch([status EXCEPT ![t] = "DYING"], ready_list)
     IN status' = d.status /\ ready_list' = d.ready
  /\ UNCHANGED <<priority, original_priority, wait_on_lock, holding_locks, value,
                 waiters, holder, cond_waiters, pc, arg, kernel, owned, arrival,
                 timer, program, ops>>

\* -------------------------------------------------------------- processes
\* The fields of the running system that no process operation touches.
beside == <<wait_on_lock, holding_locks, holder, cond_waiters, arg, kernel, owned,
            timer, turn, stage, rounds, noted, tally, sys>>

\* sema_up, line 129: if (should_preempt ()), at the end of a sema_up that is
\* followed by more of the caller's function at next; the caller goes on to
\* thread_yield () at yld if a higher thread heads the ready queue
PreemptThen(t, yld, next) ==
  /\ pc' = [pc EXCEPT ![t] = IF should_preempt(ready_list, priority, t) THEN yld ELSE next]
  /\ UNCHANGED <<status, ready_list, priority, original_priority, value, waiters,
                 arrival, beside, proc, ops>>

\* sema_up, line 130: thread_yield (), whatever the ready queue holds by now
YieldThen(t, next) ==
  /\ LET y == YieldCur(status, ready_list, t, priority)
     IN status' = y.status /\ ready_list' = y.ready
  /\ pc' = [pc EXCEPT ![t] = next]
  /\ UNCHANGED <<priority, original_priority, value, waiters, arrival, beside, proc, ops>>

\* PRI_DEFAULT, which may lie at or above the priority of the thread that forks
\* and at or below it.
PriDefault == {1, 2}

\* The thread thread_create makes next: ids are given out in order.
NewThread ==
  IF \E c \in 1..ProcThreads : status[c] = "NONE"
  THEN SetMin({c \in 1..ProcThreads : status[c] = "NONE"})
  ELSE NULL

\* process_fork, lines 96-102: thread_create (name, PRI_DEFAULT, __do_fork, if_),
\* which fails or makes a READY child of the caller, and may give way to it.
ProcessFork(t) ==
  /\ Starts(t)
  /\ \E made \in BOOLEAN :
       IF ~made \/ NewThread = NULL
       THEN /\ proc' = [proc EXCEPT !.ret[t] = TID_ERROR, !.call[t] = <<"fork", NULL>>]
            /\ UNCHANGED <<status, ready_list, priority, original_priority, pc>>
       ELSE \E p \in PriDefault : \E gives \in BOOLEAN :
              LET c == NewThread
                  pr == [priority EXCEPT ![c] = p]
                  st == [status EXCEPT ![c] = "READY"]
                  rl == InsertOrdered(ready_list, c, pr)
                  y == YieldCur(st, rl, t, pr)
                  pre == gives /\ should_preempt(rl, pr, t)
              IN /\ priority' = pr
                 /\ original_priority' = [original_priority EXCEPT ![c] = p]
                 /\ status' = IF pre THEN y.status ELSE st
                 /\ ready_list' = IF pre THEN y.ready ELSE rl
                 /\ pc' = [pc EXCEPT ![t] = "pf_sd", ![c] = "df_copy"]
                 /\ proc' = [proc EXCEPT !.parent[c] = t,
                                         !.children[t] = Append(@, c),
                                         !.child[t] = c,
                                         !.call[t] = <<"fork", NULL>>]
  /\ UNCHANGED <<value, waiters, arrival, beside>>

\* process_fork, line 106: sema_down (&current->fork_sema)
ProcessForkDown(t) ==
  /\ RunsIn(t, {"pf_sd", "pf_blk"})
  /\ DoSemaDown(t, ForkSema(t), "pf_blk", "pf_ret")
  /\ UNCHANGED <<priority, original_priority, beside, proc, ops>>

\* process_fork, lines 108-112: the child's id or TID_ERROR
ProcessForkReturn(t) ==
  /\ Runs(t, "pf_ret")
  /\ proc' = [proc EXCEPT !.ret[t] = IF proc.fork_success[t] THEN proc.child[t]
                                     ELSE TID_ERROR]
  /\ pc' = [pc EXCEPT ![t] = "idle"]
  /\ UNCHANGED <<status, ready_list, priority, original_priority, value, waiters,
                 arrival, beside, ops>>

\* __do_fork, lines 175-204: the child copies the parent's frame and page
\* table, either of which may fail (goto error), and allocates its fd_table
\* (line 202, PAL_ZERO: every slot NULL), which may fail too (goto error, with
\* fd_table still NULL); with all three done it enters the loop of line 207 at
\* the first slot after the standard streams
DoForkCopy(c) ==
  /\ Runs(c, "df_copy")
  /\ \E succ \in BOOLEAN :
       IF succ
       THEN /\ sys' = [sys EXCEPT !.fd_table[c] = [fd \in 2..(FdtSize - 1) |-> NULL]]
            /\ proc' = [proc EXCEPT !.slot[c] = 2]
            /\ pc' = [pc EXCEPT ![c] = "df_dup"]
       ELSE /\ proc' = [proc EXCEPT !.copied[c] = "fail"]
            /\ pc' = [pc EXCEPT ![c] = "df_set"]
            /\ UNCHANGED sys
  /\ UNCHANGED <<status, ready_list, priority, original_priority, value, waiters,
                 arrival, wait_on_lock, holding_locks, holder, cond_waiters, arg,
                 kernel, owned, timer, turn, stage, rounds, noted, tally, ops>>

\* __do_fork, lines 207-216, from slot i on: the loop reads parent->fd_table[i]
\* (line 208), passes the slots that are NULL, and at the next open one stores
\* what file_duplicate returns, a handle on the same file or NULL, unchecked
\* (line 213); past the last slot it leaves for line 219.  The child has
\* interrupts on between two stores.  With a parent that has no fd_table the
\* read of line 208 is through a NULL pointer: the page fault halts the kernel
\* or ends the child, which then has not raised fork_sema.
DoForkDuplicate(c) ==
  /\ Runs(c, "df_dup")
  /\ LET tab == sys.fd_table[proc.parent[c]]
         open == {fd \in DOMAIN tab : fd >= proc.slot[c] /\ tab[fd] # NULL}
     IN IF tab = NoTable
        THEN \E fault \in {"panic", "killed"} :
               /\ kernel' = IF fault = "panic" THEN "panic" ELSE kernel
               /\ proc' = IF fault = "panic" THEN proc
                          ELSE [proc EXCEPT !.exit_status[c] = -1]
               /\ pc' = IF fault = "panic" THEN pc ELSE [pc EXCEPT ![c] = "px_clean"]
               /\ UNCHANGED sys
        ELSE IF open = {}
        THEN /\ proc' = [proc EXCEPT !.copied[c] = "ok", !.slot[c] = FdtSize]
             /\ pc' = [pc EXCEPT ![c] = "df_set"]
             /\ UNCHANGED <<sys, kernel>>
        ELSE \E file \in {tab[SetMin(open)], NULL} :
               /\ sys' = [sys EXCEPT !.fd_table[c][SetMin(open)] = file]
               /\ proc' = [proc EXCEPT !.slot[c] = SetMin(open) + 1]
               /\ UNCHANGED <<pc, kernel>>
  /\ UNCHANGED <<status, ready_list, priority, original_priority, value, waiters,
                 arrival, wait_on_lock, holding_locks, holder, cond_waiters, arg,
                 owned, timer, turn, stage, rounds, noted, tally, ops>>

\* A child that reports success whatever happened.
ForkReport_AlwaysTrue(succ) == TRUE

\* __do_fork, lines 219 and 224: what the child writes to parent->fork_success
ForkReport(succ) == succ

\* __do_fork, lines 219 and 224: parent->fork_success = true or false
DoForkSet(c) ==
  /\ Runs(c, "df_set")
  /\ proc' = [proc EXCEPT !.fork_success[proc.parent[c]] =
                            ForkReport(proc.copied[c] = "ok")]
  /\ pc' = [pc EXCEPT ![c] = "df_up"]
  /\ UNCHANGED <<status, ready_list, priority, original_priority, value, waiters,
                 arrival, beside, ops>>

\* __do_fork, lines 220 and 225: sema_up (&parent->fork_sema)
DoForkUp(c) ==
  /\ Runs(c, "df_up")
  /\ DoSemaUp(c, ForkSema(proc.parent[c]), "df_chk")
  /\ UNCHANGED <<priority, original_priority, beside, proc, ops>>

\* __do_fork, lines 221 and 226: after the sema_up, do_iret into the new process
\* or thread_exit (), which calls process_exit
DoForkPreempt(c) ==
  /\ Runs(c, "df_chk")
  /\ PreemptThen(c, "df_yld", IF proc.copied[c] = "ok" THEN "idle" ELSE "px_clean")

DoForkYield(c) ==
  /\ Runs(c, "df_yld")
  /\ YieldThen(c, IF proc.copied[c] = "ok" THEN "idle" ELSE "px_clean")

\* exit (status), syscall.c lines 163-166: the status is stored and thread_exit ()
\* calls process_exit; -1 is the status of a process the kernel ends.  The
\* statuses passed differ from the exit_status a thread is created with, so
\* that a status read is told from one never written.
ExitArgs == {-1, 1}

SysExit(t, st) ==
  /\ Starts(t)
  /\ proc' = [proc EXCEPT !.exit_status[t] = st]
  /\ pc' = [pc EXCEPT ![t] = "px_clean"]
  /\ UNCHANGED <<status, ready_list, priority, original_priority, value, waiters,
                 arrival, beside>>

\* process_exit, lines 331-333, and process_cleanup, lines 355-365: with an
\* fd_table, every file open in slots 2 and up is closed, the table is freed
\* and curr->fd_table = NULL
ProcessExitCleanup(t) ==
  /\ Runs(t, "px_clean")
  /\ sys' = [sys EXCEPT !.fd_table[t] = NoTable]
  /\ pc' = [pc EXCEPT ![t] = "px_up"]
  /\ UNCHANGED <<status, ready_list, priority, original_priority, value, waiters,
                 arrival, wait_on_lock, holding_locks, holder, cond_waiters, arg,
                 kernel, owned, timer, turn, stage, rounds, noted, tally, proc, ops>>

\* process_exit, line 339: sema_up (&curr->wait_sema)
ProcessExitUp(t) ==
  /\ Runs(t, "px_up")
  /\ DoSemaUp(t, WaitSema(t), "px_chk")
  /\ proc' = [proc EXCEPT !.exited = @ \cup {t}]
  /\ UNCHANGED <<priority, original_priority, beside, ops>>

ProcessExitPreempt(t) ==
  /\ Runs(t, "px_chk")
  /\ PreemptThen(t, "px_yld", "px_sd")

ProcessExitYield(t) ==
  /\ Runs(t, "px_yld")
  /\ YieldThen(t, "px_sd")

\* process_exit, line 342: sema_down (&curr->reap_sema)
ProcessExitDown(t) ==
  /\ RunsIn(t, {"px_sd", "px_blk"})
  /\ DoSemaDown(t, ReapSema(t), "px_blk", "px_end")
  /\ UNCHANGED <<priority, original_priority, beside, proc, ops>>

\* thread_exit after process_exit: the thread is DYING and the head of the
\* ready queue runs
ProcessExitEnd(t) ==
  /\ Runs(t, "px_end")
  /\ LET d == Dispatch([status EXCEPT ![t] = "DYING"], ready_list)
     IN status' = d.status /\ ready_list' = d.ready
  /\ pc' = [pc EXCEPT ![t] = "dead"]
  /\ UNCHANGED <<priority, original_priority, value, waiters, arrival, beside, proc, ops>>

\* get_child_process, lines 400-407: the child of that id on the caller's list
get_child_process(children, child_tid) ==
  IF \E i \in 1..Len(children) : children[i] = child_tid THEN child_tid ELSE NULL

\* A process_wait that leaves the child on the list.
Reaped_Kept(children, child) == children

\* process_wait, line 314: list_remove (&child->child_elem)
Reaped(children, child) == Remove(children, child)

\* The ids process_wait is called with: every thread's, and TID_ERROR.
WaitArgs == {TID_ERROR} \cup (1..ProcThreads)

\* process_wait, lines 301-308: look the child up; return -1 without one;
\* sema_down (&child->wait_sema)
ProcessWait(t, child_tid) ==
  /\ Starts(t)
  /\ LET child == get_child_process(proc.children[t], child_tid)
     IN IF child = NULL
        THEN /\ proc' = [proc EXCEPT !.ret[t] = -1, !.call[t] = <<"wait", child_tid>>]
             /\ UNCHANGED <<status, ready_list, value, waiters, arrival, pc>>
        ELSE /\ proc' = [proc EXCEPT !.child[t] = child,
                                     !.call[t] = <<"wait", child_tid>>]
             /\ DoSemaDown(t, WaitSema(child), "pw_blk", "pw_got")
  /\ UNCHANGED <<priority, original_priority, beside>>

\* sema_down: the loop again, after the waiter was unblocked
ProcessWaitLoop(t) ==
  /\ Runs(t, "pw_blk")
  /\ DoSemaDown(t, WaitSema(proc.child[t]), "pw_blk", "pw_got")
  /\ UNCHANGED <<priority, original_priority, beside, proc, ops>>

\* process_wait, line 312: int status = child->exit_status, the value the call
\* is going to return
ProcessWaitStatus(t) ==
  /\ Runs(t, "pw_got")
  /\ proc' = [proc EXCEPT !.ret[t] = proc.exit_status[proc.child[t]]]
  /\ pc' = [pc EXCEPT ![t] = "pw_rm"]
  /\ UNCHANGED <<status, ready_list, priority, original_priority, value, waiters,
                 arrival, beside, ops>>

\* process_wait, line 315: list_remove (&child->child_elem)
ProcessWaitRemove(t) ==
  /\ Runs(t, "pw_rm")
  /\ proc' = [proc EXCEPT !.children[t] = Reaped(@, proc.child[t])]
  /\ pc' = [pc EXCEPT ![t] = "pw_up"]
  /\ UNCHANGED <<status, ready_list, priority, original_priority, value, waiters,
                 arrival, beside, ops>>

\* process_wait, line 318: sema_up (&child->reap_sema); the return of the
\* status (line 320) follows the preemption test of that sema_up
ProcessWaitReap(t) ==
  /\ Runs(t, "pw_up")
  /\ proc' = [proc EXCEPT !.waited = @ \cup {<<t, proc.child[t]>>}]
  /\ DoSemaUp(t, ReapSema(proc.child[t]), "su_chk")
  /\ UNCHANGED <<priority, original_priority, beside, ops>>

\* ------------------------------------------------------- interrupt context
\* The timer's state without the handler position.
clock == <<wakeup_tick, sleep_list, ticks, sleep_t0, sleep_n>>

\* The functions that open with ASSERT (!intr_context ()): sema_down (line 65),
\* lock_acquire (line 217), cond_wait (line 419), cond_signal (line 440).
AssertsThreadContext_NotSemaDown(f) == f \in {"lock_acquire", "cond_wait", "cond_signal"}

AssertsThreadContext(f) == f \in {"sema_down", "lock_acquire", "cond_wait", "cond_signal"}

\* thread_yield (): ASSERT (!intr_context ())
thread_yield_asserts(intr) == intr

\* An external interrupt is delivered: its handler runs to the end with
\* interrupts off, on the stack of the interrupted thread.
Interrupt == kernel = "ok" /\ IntrEnabled /\ ops > 0 /\ ops' = ops - 1

\* The handler calls function f, which changes nothing before its check of
\* the context: a failed ASSERT halts the kernel inside f; otherwise f goes on.
IntrEnter(f) ==
  /\ irq' = f
  /\ kernel' = IF AssertsThreadContext(f) THEN "panic" ELSE kernel
  /\ UNCHANGED <<status, priority, original_priority, wait_on_lock, holding_locks,
                 ready_list, value, waiters, holder, cond_waiters, pc, arg, owned,
                 arrival, clock, program>>

\* A handler calls sema_down (&sema)
IntrSemaDown == Interrupt /\ IntrEnter("sema_down")

\* A handler calls lock_acquire (lock)
IntrLockAcquire == Interrupt /\ Cur # NULL /\ IntrEnter("lock_acquire")

\* A handler calls cond_wait (&cond, lock)
IntrCondWait == Interrupt /\ Cur # NULL /\ IntrEnter("cond_wait")

\* A handler calls cond_signal (&cond, lock)
IntrCondSignal == Interrupt /\ Cur # NULL /\ IntrEnter("cond_signal")

\* A handler calls cond_broadcast (&cond, lock): while (!list_empty
\* (&cond->waiters)) cond_signal (cond, lock)
IntrCondBroadcast ==
  /\ Interrupt /\ Cur # NULL
  /\ IF cond_waiters = <<>>
     THEN UNCHANGED <<status, priority, original_priority, wait_on_lock, holding_locks,
                      ready_list, value, waiters, holder, cond_waiters, pc, arg, owned,
                      arrival, timer, kernel, program>>
     ELSE IntrEnter("cond_signal")

\* A handler calls sema_try_down (&sema)
IntrSemaTryDown ==
  /\ Interrupt
  /\ IF AssertsThreadContext("sema_try_down")
     THEN IntrEnter("sema_try_down")
     ELSE /\ value' = IF SemaCanTake(value[UserSema])
                      THEN [value EXCEPT ![UserSema] = @ - 1] ELSE value
          /\ UNCHANGED <<status, priority, original_priority, wait_on_lock,
                         holding_locks, ready_list, waiters, holder, cond_waiters, pc,
                         arg, owned, arrival, timer, kernel, program>>

\* sema_up, lines 129-131: if (should_preempt ()) thread_yield (), whatever the
\* context
SemaUpYields(pre, intr) == pre

\* A handler calls sema_up (&sema): lines 112-122, then the preemption test; the
\* idle thread is below every thread
IntrSemaUp ==
  /\ Interrupt
  /\ value[UserSema] < MaxSemaValue
  /\ IF AssertsThreadContext("sema_up")
     THEN IntrEnter("sema_up")
     ELSE LET u == WakeFirst(UserSema, priority, status, ready_list)
              pre == IF Cur = NULL THEN u.ready # <<>>
                     ELSE should_preempt(u.ready, priority, Cur)
              halts == SemaUpYields(pre, TRUE) /\ thread_yield_asserts(TRUE)
          IN /\ waiters' = [waiters EXCEPT ![UserSema] = u.queue]
             /\ arrival' = [arrival EXCEPT ![UserSema] = Departs(@, u.woken)]
             /\ value' = [value EXCEPT ![UserSema] = SemaUpValue(@)]
             /\ status' = u.status
             /\ ready_list' = u.ready
             /\ kernel' = IF halts THEN "panic" ELSE kernel
             /\ irq' = IF halts THEN "sema_up" ELSE irq
             /\ UNCHANGED <<priority, original_priority, wait_on_lock, holding_locks,
                            holder, cond_waiters, pc, arg, owned, clock, program>>

\* A handler calls lock_try_acquire (lock); thread_current () is the
\* interrupted thread
IntrLockTryAcquire(l) ==
  /\ Interrupt /\ Cur # NULL
  /\ IF AssertsThreadContext("lock_try_acquire") \/ lock_held_by_current_thread(l, Cur)
     THEN /\ irq' = "lock_try_acquire"
          /\ kernel' = "panic"
          /\ UNCHANGED <<value, holder, owned>>
     ELSE /\ UNCHANGED <<irq, kernel>>
          /\ IF SemaCanTake(value[LockSema(l)])
             THEN /\ value' = [value EXCEPT ![LockSema(l)] = @ - 1]
                  /\ holder' = [holder EXCEPT ![l] = Cur]
                  /\ owned' = [owned EXCEPT ![l] = @ \cup {Cur}]
             ELSE UNCHANGED <<value, holder, owned>>
  /\ UNCHANGED <<status, priority, original_priority, wait_on_lock, holding_locks,
                 ready_list, waiters, cond_waiters, pc, arg, arrival, clock, program>>

\* lock_release, lines 304-346, called by a handler: as ReleaseBody, but a
\* thread_yield in interrupt context fails its assertion
IntrReleaseBody(t, l, h) ==
  LET pr2 == [priority EXCEPT ![t] = ReleasePriority(t, HeldWalk(h, t).locks)]
      u == WakeFirst(LockSema(l), pr2, status, ready_list)
      halts == should_preempt(u.ready, pr2, t) /\ thread_yield_asserts(TRUE)
  IN /\ holding_locks' = h
     /\ priority' = pr2
     /\ holder' = [holder EXCEPT ![l] = NULL]
     /\ owned' = [owned EXCEPT ![l] = @ \ {t}]
     /\ waiters' = [waiters EXCEPT ![LockSema(l)] = u.queue]
     /\ arrival' = [arrival EXCEPT ![LockSema(l)] = Departs(@, u.woken)]
     /\ value' = [value EXCEPT ![LockSema(l)] = SemaUpValue(@)]
     /\ status' = u.status
     /\ ready_list' = u.ready
     /\ kernel' = IF halts THEN "panic" ELSE kernel
     /\ irq' = IF halts THEN "lock_release" ELSE irq

\* A handler calls lock_release (lock)
IntrLockRelease(l) ==
  /\ Interrupt /\ Cur # NULL
  /\ IF AssertsThreadContext("lock_release") \/ ~lock_held_by_current_thread(l, Cur)
     THEN /\ irq' = "lock_release"
          /\ kernel' = "panic"
          /\ UNCHANGED <<holding_locks, priority, holder, owned, waiters, arrival, value,
                         status, ready_list>>
     ELSE IF ~Linked(holding_locks, l)
     THEN \E outcome \in {"panic", "unlinked"} :
            IF outcome = "panic"
            THEN /\ irq' = "lock_release"
                 /\ kernel' = "panic"
                 /\ UNCHANGED <<holding_locks, priority, holder, owned, waiters,
                                arrival, value, status, ready_list>>
            ELSE IntrReleaseBody(Cur, l, holding_locks)
     ELSE LET h == ListRemove(holding_locks, l)
              w == HeldWalk(h, Cur)
          IN IF w.ends = "end"
             THEN IntrReleaseBody(Cur, l, h)
             ELSE /\ irq' = "lock_release"
                  /\ kernel' = IF w.ends = "cycle" THEN "hung" ELSE "panic"
                  /\ holding_locks' = h
                  /\ priority' = [priority EXCEPT ![Cur] = ReleasePriority(Cur, w.locks)]
                  /\ UNCHANGED <<holder, owned, waiters, arrival, value, status,
                                 ready_list>>
  /\ UNCHANGED <<original_priority, wait_on_lock, cond_waiters, pc, arg, clock, program>>

\* lock_acquire (lock) by a thread that holds the lock: ASSERT
\* (!lock_held_by_current_thread (lock)), line 218
LockAcquireHeld(t, l) ==
  /\ Starts(t)
  /\ lock_held_by_current_thread(l, t)
  /\ kernel' = "panic"
  /\ pc' = [pc EXCEPT ![t] = "la_assert"]
  /\ UNCHANGED <<status, priority, original_priority, wait_on_lock, holding_locks,
                 ready_list, value, waiters, holder, cond_waiters, arg, owned, arrival,
                 timer, program>>

\* lock_release (lock) by a thread that does not hold the lock: ASSERT
\* (lock_held_by_current_thread (lock)), line 295
LockReleaseUnheld(t, l) ==
  /\ Starts(t)
  /\ ~lock_held_by_current_thread(l, t)
  /\ kernel' = "panic"
  /\ pc' = [pc EXCEPT ![t] = "lr_assert"]
  /\ UNCHANGED <<status, priority, original_priority, wait_on_lock, holding_locks,
                 ready_list, value, waiters, holder, cond_waiters, arg, owned, arrival,
                 timer, program>>

\* --------------------------------------------- one acquire/release followed
\* The threads waiting for lock l: those that have recorded l in wait_on_lock
\* and those on the waiter list of l's semaphore.
Waiting(l) == {w \in Threads : wait_on_lock[w] = l} \cup Range(waiters[LockSema(l)])

\* With holders hd, waiters wtg and priorities pr, thread u stands as it stood
\* at the call noted in n: it holds the same locks, the same threads wait for
\* them, and those have the same priorities.
SameStanding(u, n, hd, wtg, pr) ==
  \A l \in Locks :
    /\ hd[l] = u <=> n.hold[l] = u
    /\ hd[l] = u =>
         /\ wtg[l] = n.wt[l]
         /\ \A w \in wtg[l] : pr[w] = n.pri[w]

\* Thread u stands after the step as it stood at the noted call.
StandsAgain(u) ==
  SameStanding(u, noted, holder', [m \in Locks |-> Waiting(m)'], priority')

\* lock_acquire (lock) enters its section, lines 224-252, noting the
\* priorities, holders and waiters it finds and the threads that its donation
\* walk raises
NotedAcquire(t, l) ==
  /\ noted.phase = "none"
  /\ arg[t] = l
  /\ LockAcquireEnterOp(t)
  /\ noted' = [phase |-> "open", t |-> t, l |-> l, pri |-> priority, hold |-> holder,
               wt |-> [m \in Locks |-> Waiting(m)],
               kept |-> {u \in Threads : priority'[u] # priority[u]}]
  /\ UNCHANGED <<turn, stage, rounds, proc, tally, sys, ops>>

\* What is kept once the lock_release that matches the noted call is done: the
\* threads the call raised that stand again as they stood.
Closed ==
  [NothingNoted EXCEPT !.phase = "closed",
                       !.kept = {u \in noted.kept \ {noted.t} : StandsAgain(u)}]

\* lock_release (lock) by the thread of the noted call, of the lock of that
\* call: the section of lines 298-346
NotedRelease(t, l) ==
  /\ noted.phase = "open" /\ noted.t = t /\ noted.l = l
  /\ arg[t] = l
  /\ LockReleaseEnterOp(t)
  /\ noted' = IF kernel' # "ok" THEN noted
              ELSE IF pc'[t] = "idle" THEN Closed
              ELSE [noted EXCEPT !.phase = "releasing"]
  /\ UNCHANGED <<turn, stage, rounds, proc, tally, sys, ops>>

\* The same lock_release going on after it yielded
NotedReleaseResume(t) ==
  /\ noted.phase = "releasing" /\ noted.t = t
  /\ RunsIn(t, {"lr_y1", "lr_y2"})
  /\ DoReleaseResume(t, "lr_y2", "idle")
  /\ UNCHANGED <<priority, original_priority, wait_on_lock, holding_locks, value,
                 waiters, holder, cond_waiters, arg, kernel, owned, arrival, timer,
                 turn, stage, rounds, proc, tally, sys, ops>>
  /\ noted' = IF pc'[t] = "idle" THEN Closed ELSE noted

\* ------------------------------------------------------------------ timer
\* timer_sleep returning only for a negative argument
SleepReturnsAtOnce_NegativeOnly(n) == n < 0

\* timer_sleep, line 131: if (ticks <= 0) return
SleepReturnsAtOnce(n) == n <= 0

\* timer_sleep, lines 130-135
TimerSleep(t, n) ==
  /\ Starts(t)
  /\ IF SleepReturnsAtOnce(n)
     THEN UNCHANGED <<pc, sleep_t0, sleep_n>>
     ELSE /\ pc' = [pc EXCEPT ![t] = "ts_call"]
          /\ sleep_t0' = [sleep_t0 EXCEPT ![t] = ticks]
          /\ sleep_n' = [sleep_n EXCEPT ![t] = n]
  /\ UNCHANGED <<status, priority, original_priority, wait_on_lock, holding_locks,
                 wakeup_tick, ready_list, sleep_list, ticks, value, waiters, holder,
                 cond_waiters, arg, kernel, owned, arrival, program, irq>>

\* timer_sleep, line 136: thread_sleep (wake_up_at)
ThreadSleep(t) ==
  /\ Runs(t, "ts_call")
  /\ UNCHANGED ops
  /\ LET wk == [wakeup_tick EXCEPT ![t] = WakeUpAt(sleep_t0[t], sleep_n[t])]
         b == BlockCur(status, ready_list, t)
     IN /\ wakeup_tick' = wk
        /\ sleep_list' = InsertSleeper(sleep_list, t, wk)
        /\ status' = b.status
        /\ ready_list' = b.ready
  /\ pc' = [pc EXCEPT ![t] = "ts_blk"]
  /\ UNCHANGED <<priority, original_priority, wait_on_lock, holding_locks, ticks,
                 value, waiters, holder, cond_waiters, arg, sleep_t0, sleep_n, kernel,
                 owned, arrival, program, irq>>

\* timer_sleep returns
TimerSleepReturn(t) ==
  /\ Runs(t, "ts_blk")
  /\ UNCHANGED ops
  /\ pc' = [pc EXCEPT ![t] = "idle"]
  /\ sleep_t0' = [sleep_t0 EXCEPT ![t] = 0]
  /\ sleep_n' = [sleep_n EXCEPT ![t] = 0]
  /\ UNCHANGED <<status, priority, original_priority, wait_on_lock, holding_locks,
                 wakeup_tick, ready_list, sleep_list, ticks, value, waiters, holder,
                 cond_waiters, arg, kernel, owned, arrival, program, irq>>

\* No thread is in timer_sleep: nothing reads the tick count.
NoSleeper == sleep_list = <<>> /\ \A t \in Threads : pc[t] \notin {"ts_call", "ts_blk"}

\* timer_interrupt, lines 185-189: ticks++; thread_tick (); thread_wakeup (ticks).
\* thread_tick asks for a yield on return when the running thread's time slice
\* is used up (slice); the idle thread gives way to any ready thread.  The count
\* is kept up to MaxTicks; beyond it the interrupt goes on firing, for its
\* preemption, only while no thread is in timer_sleep.
TimerInterrupt ==
  /\ kernel = "ok"
  /\ IntrEnabled
  /\ UNCHANGED ops
  /\ ticks < MaxTicks \/ NoSleeper
  /\ \E slice \in BOOLEAN :
       LET now == IF ticks < MaxTicks THEN ticks + 1 ELSE ticks
           due == Due(WakeupArg(now))
           st1 == [t \in Threads |-> IF t \in Range(due) THEN "READY" ELSE status[t]]
           rl1 == UnblockAll(due, ready_list, priority)
           after == IF Cur = NULL THEN Dispatch(st1, rl1)
                    ELSE IF slice THEN YieldCur(st1, rl1, Cur, priority)
                    ELSE [status |-> st1, ready |-> rl1]
       IN /\ ticks' = now
          /\ sleep_list' = SelectSeq(sleep_list, LAMBDA t : t \notin Range(due))
          /\ wakeup_tick' = [t \in Threads |-> IF t \in Range(due) THEN 0 ELSE wakeup_tick[t]]
          /\ status' = after.status
          /\ ready_list' = after.ready
  /\ UNCHANGED <<priority, original_priority, wait_on_lock, holding_locks, value,
                 waiters, holder, cond_waiters, pc, arg, sleep_t0, sleep_n, kernel,
                 owned, arrival, program, irq>>

\* timer_interrupt, line 186: ticks++
TimerTick ==
  /\ kernel = "ok"
  /\ IntrEnabled
  /\ ticks < MaxTicks \/ NoSleeper
  /\ ticks' = IF ticks < MaxTicks THEN ticks + 1 ELSE ticks
  /\ irq' = "tick"
  /\ UNCHANGED <<status, priority, original_priority, wait_on_lock, holding_locks,
                 wakeup_tick, ready_list, sleep_list, value, waiters, holder,
                 cond_waiters, pc, arg, sleep_t0, sleep_n, kernel, owned, arrival,
                 program, ops>>

\* timer_interrupt, line 187: thread_tick (), the accounting, which asks for a
\* yield on return when the running thread's time slice is used up
ThreadTick ==
  /\ kernel = "ok"
  /\ irq = "tick"
  /\ \E slice \in BOOLEAN : irq' = IF slice THEN "wake_yield" ELSE "wake"
  /\ UNCHANGED <<status, priority, original_priority, wait_on_lock, holding_locks,
                 wakeup_tick, ready_list, sleep_list, ticks, value, waiters, holder,
                 cond_waiters, pc, arg, sleep_t0, sleep_n, kernel, owned, arrival,
                 program, ops>>

\* timer_interrupt, line 188: thread_wakeup (ticks), and the return from the
\* interrupt, which yields if the accounting asked for it
ThreadWakeup ==
  /\ kernel = "ok"
  /\ irq \in {"wake", "wake_yield"}
  /\ LET due == Due(WakeupArg(ticks))
         st1 == [t \in Threads |-> IF t \in Range(due) THEN "READY" ELSE status[t]]
         rl1 == UnblockAll(due, ready_list, priority)
         after == IF Cur = NULL THEN Dispatch(st1, rl1)
                  ELSE IF irq = "wake_yield" THEN YieldCur(st1, rl1, Cur, priority)
                  ELSE [status |-> st1, ready |-> rl1]
     IN /\ sleep_list' = SelectSeq(sleep_list, LAMBDA t : t \notin Range(due))
        /\ wakeup_tick' = [t \in Threads |-> IF t \in Range(due) THEN 0 ELSE wakeup_tick[t]]
        /\ status' = after.status
        /\ ready_list' = after.ready
  /\ irq' = "none"
  /\ UNCHANGED <<priority, original_priority, wait_on_lock, holding_locks, ticks,
                 value, waiters, holder, cond_waiters, pc, arg, sleep_t0, sleep_n,
                 kernel, owned, arrival, program, ops>>

\* --------------------------------------------------------- specifications
SleepArgs == 0..MaxSleep

\* Semaphores, locks and the timer: every thread, whenever it is between two
\* operations, starts any operation whose precondition it meets.
Next ==
  \/ \E t \in Threads :
       \/ SemaDown(t) \/ SemaDownLoop(t) \/ SemaTryDown(t)
       \/ SemaUp(t) \/ SemaUpPreempt(t) \/ SemaUpYield(t)
       \/ \E l \in Locks : LockAcquire(t, l) \/ LockTryAcquire(t, l) \/ LockRelease(t, l)
       \/ LockAcquireEnter(t) \/ LockAcquireDown(t) \/ LockAcquireFinish(t)
       \/ LockTryAcquireDown(t) \/ LockTryAcquireSet(t)
       \/ LockReleaseEnter(t) \/ LockReleaseResume(t)
       \/ \E n \in SleepArgs : TimerSleep(t, n)
       \/ ThreadSleep(t) \/ TimerSleepReturn(t)
  \/ TimerInterrupt

Spec == Init /\ [][Next]_vars

InitLock ==
  \E k \in 0..MaxAsleep : \E wk \in WakeTicks(LockThreads) :
    Booted(LockThreads, k, wk, 0, MaxOps)

\* Locks and the timer interrupt.
NextLock ==
  \/ \E t \in Threads :
       \/ \E l \in Locks : LockAcquire(t, l) \/ LockTryAcquire(t, l) \/ LockRelease(t, l)
       \/ LockAcquireEnter(t) \/ LockAcquireDown(t) \/ LockAcquireFinish(t)
       \/ LockTryAcquireDown(t) \/ LockTryAcquireSet(t)
       \/ LockReleaseEnter(t) \/ LockReleaseResume(t)
       \/ TimerSleepReturn(t)
  \/ TimerInterrupt

SpecLock == InitLock /\ [][NextLock]_vars

\* Every thread created; two of them, the first to run, sleep for one tick at
\* boot, so that threads of lower priority run before them.
InitSema ==
  Booted(NumThreads, NumThreads - 2, [t \in Threads |-> 1], 0, MaxOpsSema)

\* The free-standing semaphore and one lock, with every thread created.
NextSema ==
  \/ \E t \in Threads :
       \/ SemaDown(t) \/ SemaDownLoop(t) \/ SemaTryDown(t)
       \/ SemaUp(t) \/ SemaUpPreempt(t) \/ SemaUpYield(t)
       \/ LockAcquire(t, 1) \/ LockRelease(t, 1)
       \/ LockAcquireEnter(t) \/ LockAcquireDown(t) \/ LockAcquireFinish(t)
       \/ LockReleaseEnter(t) \/ LockReleaseResume(t)
       \/ TimerSleepReturn(t)
  \/ TimerInterrupt

SpecSema == InitSema /\ [][NextSema]_vars

\* The two threads of the monitor program.
Pair == {1, 2}

InitPingPong ==
  \E k \in 0..1 : \E wk \in WakeTicks(Cardinality(Pair)) :
    Booted(Cardinality(Pair), k, wk, 0, 0)

\* The monitor program run by two threads.
NextPingPong ==
  \/ \E t \in Pair :
       \/ PPLock(t) \/ PPWait(t) \/ PPTurn(t) \/ PPSignal(t) \/ PPUnlock(t)
       \/ LockAcquireEnter(t) \/ LockReleaseEnter(t) \/ CondWaitPush(t)
       \/ CondSignalTest(t) \/ CondSignalSort(t) \/ CondSignalPop(t) \/ CondSignalUp(t)
       \/ LockAcquireDown(t) \/ LockAcquireFinish(t) \/ LockReleaseResume(t)
       \/ CondWaitRelease(t) \/ CondWaitReleaseEnter(t) \/ CondWaitReleaseResume(t)
       \/ CondWaitDown(t) \/ CondWaitAcquire(t)
       \/ SemaUpPreempt(t) \/ SemaUpYield(t)
       \/ TimerSleepReturn(t)
  \/ TimerInterrupt

SpecPingPong == InitPingPong /\ [][NextPingPong]_vars

\* The thread that runs sema_self_test, after boot; the helper is not created.
InitSelfTest == Booted(1, 0, [t \in Threads |-> 1], 0, 0)

\* A step of one of the two threads.
SelfTestStep ==
  \E t \in Pair :
    \/ SelfTestCreate(t) \/ SelfTestUp(t) \/ SelfTestDown(t)
    \/ SelfTestDownLoop(t) \/ SelfTestLoop(t) \/ SelfTestExit(t)
    \/ SemaUpPreempt(t) \/ SemaUpYield(t)

NextSelfTest == SelfTestStep \/ TimerInterrupt

SpecSelfTest == InitSelfTest /\ [][NextSelfTest]_vars

\* The timer keeps ticking, and a thread that is given the processor again and
\* again takes its next step: a time slice is longer than a step.
FairSelfTest ==
  SpecSelfTest /\ WF_vars(TimerInterrupt) /\ SF_vars(SelfTestStep)

\* One process after boot, which has opened a file (open, syscall.c lines
\* 337-343); the threads not yet created have no fd_table.
InitProc ==
  /\ BootedKernel(1, 0, [t \in Threads |-> 1], 0, MaxOpsProc)
  /\ sys = [NoSyscalls EXCEPT
              !.fd_table = [t \in Threads |->
                              IF t = 1
                              THEN [fd \in 2..(FdtSize - 1) |->
                                      IF fd = 2 THEN FileOf("a") ELSE NULL]
                              ELSE NoTable]]

NextProc ==
  \/ \E t \in 1..ProcThreads :
       \/ ProcessFork(t) \/ ProcessForkDown(t) \/ ProcessForkReturn(t)
       \/ DoForkCopy(t) \/ DoForkDuplicate(t) \/ DoForkSet(t) \/ DoForkUp(t)
       \/ DoForkPreempt(t)
       \/ DoForkYield(t)
       \/ \E st \in ExitArgs : SysExit(t, st)
       \/ ProcessExitCleanup(t)
       \/ ProcessExitUp(t) \/ ProcessExitPreempt(t) \/ ProcessExitYield(t)
       \/ ProcessExitDown(t) \/ ProcessExitEnd(t)
       \/ \E child_tid \in WaitArgs : ProcessWait(t, child_tid)
       \/ ProcessWaitLoop(t)
       \/ ProcessWaitStatus(t) \/ ProcessWaitRemove(t) \/ ProcessWaitReap(t)
       \/ SemaUpPreempt(t) \/ SemaUpYield(t)
  \/ TimerInterrupt

SpecProc == InitProc /\ [][NextProc]_vars

InitCond ==
  \E k \in 0..MaxAsleep : \E wk \in WakeTicks(CondThreads) :
    Booted(CondThreads, k, wk, 0, MaxOpsCond)

\* One lock and its condition variable, waited on and signalled by any thread
\* that holds the lock.
NextCond ==
  \/ \E t \in Threads :
       \/ LockAcquire(t, 1) \/ LockRelease(t, 1)
       \/ LockAcquireEnter(t) \/ LockReleaseEnter(t)
       \/ CondWait(t, 1) \/ CondWaitPush(t) \/ CondSignal(t, 1)
       \/ CondSignalTest(t) \/ CondSignalSort(t) \/ CondSignalPop(t) \/ CondSignalUp(t)
       \/ LockAcquireDown(t) \/ LockAcquireFinish(t) \/ LockReleaseResume(t)
       \/ CondWaitRelease(t) \/ CondWaitReleaseEnter(t) \/ CondWaitReleaseResume(t)
       \/ CondWaitDown(t) \/ CondWaitAcquire(t)
       \/ SemaUpPreempt(t) \/ SemaUpYield(t)
       \/ TimerSleepReturn(t)
  \/ TimerInterrupt

SpecCond == InitCond /\ [][NextCond]_vars

InitIntr ==
  \E v \in 0..MaxSemaInit : \E k \in 0..1 : \E wk \in WakeTicks(IntrThreads) :
    Booted(IntrThreads, k, wk, v, MaxOpsIntr)

\* Threads that use the semaphore, one lock and its condition variable, rightly
\* or not, and interrupt handlers that call the synchronisation functions.
NextIntr ==
  \/ \E t \in Threads :
       \/ SemaDown(t) \/ SemaDownLoop(t)
       \/ LockAcquire(t, 1) \/ LockRelease(t, 1)
       \/ LockAcquireHeld(t, 1) \/ LockReleaseUnheld(t, 1)
       \/ LockAcquireEnter(t) \/ LockReleaseEnter(t)
       \/ CondWait(t, 1) \/ CondWaitPush(t) \/ CondSignal(t, 1)
       \/ CondSignalTest(t) \/ CondSignalSort(t) \/ CondSignalPop(t) \/ CondSignalUp(t)
       \/ LockAcquireDown(t) \/ LockAcquireFinish(t) \/ LockReleaseResume(t)
       \/ CondWaitRelease(t) \/ CondWaitReleaseEnter(t) \/ CondWaitReleaseResume(t)
       \/ CondWaitDown(t) \/ CondWaitAcquire(t)
       \/ SemaUpPreempt(t) \/ SemaUpYield(t)
       \/ TimerSleepReturn(t)
  \/ IntrSemaDown \/ IntrSemaTryDown \/ IntrSemaUp
  \/ IntrLockAcquire \/ IntrLockTryAcquire(1) \/ IntrLockRelease(1)
  \/ IntrCondWait \/ IntrCondSignal \/ IntrCondBroadcast
  \/ TimerInterrupt

SpecIntr == InitIntr /\ [][NextIntr]_vars

\* The arguments of timer_sleep, a negative one among them.
TimerSleepArgs == (-1)..MaxSleep

InitTimer == \E wk \in WakeTicks(TimerThreads) : Booted(TimerThreads, 0, wk, 0, MaxOpsTimer)

\* Threads that sleep, and the timer interrupt taken statement by statement.
NextTimer ==
  \/ \E t \in Threads :
       \/ \E n \in TimerSleepArgs : TimerSleep(t, n)
       \/ ThreadSleep(t) \/ TimerSleepReturn(t)
  \/ TimerTick \/ ThreadTick \/ ThreadWakeup

SpecTimer == InitTimer /\ [][NextTimer]_vars

InitUp ==
  \E v \in 0..MaxSemaInit : \E k \in 0..MaxAsleep : \E wk \in WakeTicks(UpThreads) :
    Booted(UpThreads, k, wk, v, MaxOpsUp)

\* A semaphore that no thread ever waits for: threads raise it, try it and
\* sleep, so every sema_up finds the waiter list empty.
NextUp ==
  \/ \E t \in Threads :
       \/ SemaUp(t) \/ SemaUpPreempt(t) \/ SemaUpYield(t) \/ SemaTryDown(t)
       \/ \E n \in SleepArgs : TimerSleep(t, n)
       \/ ThreadSleep(t) \/ TimerSleepReturn(t)
  \/ TimerInterrupt

SpecUp == InitUp /\ [][NextUp]_vars

\* Every thread but the one of lowest priority sleeps for one tick at boot.
InitDonate ==
  Booted(DonateThreads, DonateThreads - 1, [t \in Threads |-> 1], 0, MaxOpsDonate)

\* Locks taken by lock_acquire only, and the timer interrupt, with one
\* lock_acquire and the lock_release that matches it followed from the entry
\* of the one's section to the return of the other.  Every thread acquires and
\* releases every lock; the pair that is followed is one of the second thread
\* on the last lock.
NextDonate ==
  \/ \E t \in Threads :
       \/ \E l \in Locks :
            \/ LockAcquire(t, l) \/ LockRelease(t, l)
            \/ t = 2 /\ l = NumLocks /\ NotedAcquire(t, l)
            \/ NotedRelease(t, l)
       \/ LockAcquireEnter(t)
       \/ ~(noted.phase = "open" /\ noted.t = t /\ noted.l = arg[t]) /\ LockReleaseEnter(t)
       \/ LockAcquireDown(t) \/ LockAcquireFinish(t)
       \/ ~(noted.phase = "releasing" /\ noted.t = t) /\ LockReleaseResume(t)
       \/ NotedReleaseResume(t)
       \/ TimerSleepReturn(t)
  \/ TimerInterrupt

SpecDonate == InitDonate /\ [][NextDonate]_vars

\* ------------------------------------------------------------- properties
\* Interrupts are on: the running thread is outside every interrupt-disabled
\* section (and the kernel has not stopped).
Quiescent == kernel = "ok" /\ IntrEnabled

\* The threads waiting for lock l: those that have recorded l in wait_on_lock
\* and those on the waiter list of l's semaphore.
WaitingOn(l) == {w \in Threads : wait_on_lock[w] = l} \cup Range(waiters[LockSema(l)])

\* The priority the invariant gives thread t: its base raised to the highest
\* effective priority among the threads waiting for a lock t holds.
DonatedPriority(t) ==
  SetMax({original_priority[t]} \cup
         {priority[w] : w \in UNION {WaitingOn(l) : l \in {h \in Locks : holder[h] = t}}})

\* The semaphore in whose sema_down thread t has blocked, if any.
SemaOf(t) ==
  IF pc[t] = "la_blk" THEN LockSema(arg[t])
  ELSE IF pc[t] = "sd_blk" THEN UserSema
  ELSE IF pc[t] = "cw_blk" THEN CondSema(t)
  ELSE NULL

\* The threads that sema_up took off semaphore s's waiter list and made ready,
\* and that have not yet run on inside their sema_down.
Woken(s) == {t \in Threads : SemaOf(t) = s /\ t \notin Range(waiters[s])}

\* C1: at every point with interrupts on, every thread's effective priority is
\* the maximum of its base priority and the effective priorities of the threads
\* waiting for the locks it holds.
C1_PriorityInvariant ==
  Quiescent => \A t \in Threads : priority[t] = DonatedPriority(t)

\* C2: no lock is owned by two threads at once: at most one thread is between
\* the return of its lock_acquire (or successful lock_try_acquire) and its
\* lock_release.
C2_MutualExclusion == \A l \in Locks : Cardinality(owned[l]) <= 1

\* C2 witness: a waiter woken by lock_release lost the lock to another acquirer,
\* which owns it while the woken waiter is ready to run its sema_down loop again.
C2_Witness ==
  \E l \in Locks : \E t, u \in Threads :
    /\ t # u
    /\ owned[l] = {t}
    /\ u \in Woken(LockSema(l))
    /\ status[u] = "READY"

\* C4 as stated: with interrupts on, a lock has no holder exactly when its
\* semaphore's value is 1.
C4_HolderIffValueOne ==
  Quiescent => \A l \in Locks : (holder[l] = NULL <=> value[LockSema(l)] = 1)

\* A thread has taken lock l's semaphore and not yet stored itself as holder.
Taking(l) == {t \in Threads : pc[t] \in {"la_fin", "lt_set"} /\ arg[t] = l}

\* The relation of C4 outside the window: a held lock's semaphore is at 0 and a
\* semaphore at 1 means no holder; a lock without holder has its semaphore at
\* 1, or at 0 while exactly one thread stands between taking the semaphore and
\* storing itself as holder.
C4_HolderValue ==
  \A l \in Locks :
    /\ value[LockSema(l)] \in {0, 1}
    /\ holder[l] # NULL => value[LockSema(l)] = 0 /\ Taking(l) = {}
    /\ holder[l] = NULL /\ value[LockSema(l)] = 0 => Cardinality(Taking(l)) = 1
    /\ value[LockSema(l)] = 1 => Taking(l) = {}

\* The window of C4, reached with interrupts on: the semaphore is taken
\* and the lock has no holder yet.
C4_Witness ==
  \E l \in Locks :
    /\ Quiescent
    /\ holder[l] = NULL
    /\ value[LockSema(l)] = 0
    /\ \E t \in Taking(l) : status[t] = "READY"

\* The wait-for chain starting at thread x: x, the holder of the lock x waits
\* for, and so on (wol gives the lock each thread waits for).
RECURSIVE Chain(_, _, _)
Chain(x, wol, seen) ==
  IF x = NULL \/ x \in seen THEN seen
  ELSE Chain(IF wol[x] = NULL THEN NULL ELSE holder[wol[x]], wol, seen \cup {x})

\* C8: when lock_acquire of a held lock has donated and goes on to block, every
\* thread on the wait-for chain from the holder has at least the acquirer's
\* priority, and a thread that already had keeps the priority it had.
C8_DonationReachesChain ==
  [][\A t \in Threads :
       (pc[t] = "la_in" /\ pc'[t] = "la_sd" /\ holder[arg'[t]] # NULL) =>
         \A u \in Chain(holder[arg'[t]], wait_on_lock', {}) :
           /\ priority'[u] >= priority[t]
           /\ priority[u] >= priority[t] => priority'[u] = priority[u]]_vars

\* C8 witness: a chain of depth two that the donation has raised: t waits for a
\* lock of h, h waits for a lock of g, and both h and g run above their base at
\* t's priority.
C8_Witness ==
  \E t, h, g \in Threads :
    /\ Cardinality({t, h, g}) = 3
    /\ pc[t] \in {"la_sd", "la_blk"}
    /\ wait_on_lock[t] # NULL /\ holder[wait_on_lock[t]] = h
    /\ wait_on_lock[h] # NULL /\ holder[wait_on_lock[h]] = g
    /\ priority[h] = priority[t] /\ priority[h] > original_priority[h]
    /\ priority[g] = priority[t] /\ priority[g] > original_priority[g]

\* C9: lock_release leaves the releaser with the maximum of its base priority
\* and the effective priorities of the waiters of every lock it still holds.
C9_ReleaseRecomputes ==
  [][\A t \in Threads : \A l \in Locks :
       (holder[l] = t /\ holder'[l] = NULL) =>
         priority'[t] =
           SetMax({original_priority[t]} \cup
                  {priority[w] : w \in UNION {Range(waiters[LockSema(h)]) :
                                               h \in {k \in Locks : holder'[k] = t}}})]_vars

\* C3 as stated: with interrupts on, every semaphore has value 0 or no waiters.
C3_ValueZeroOrNoWaiters ==
  Quiescent => \A s \in Semas : value[s] = 0 \/ waiters[s] = <<>>

\* C3 amended: a semaphore with waiters has a value no larger than the number of
\* threads that sema_up has woken from it and that have not yet run on in their
\* sema_down; so its value is 0 unless such a thread is still to take it.
C3_ValueCoveredByWoken ==
  \A s \in Semas :
    /\ value[s] >= 0
    /\ waiters[s] # <<>> => value[s] <= Cardinality(Woken(s))

\* C3 witness: with interrupts on, a semaphore has value 1 and a waiter, the
\* thread woken by the sema_up being ready and not yet run.
C3_Witness ==
  \E s \in Semas :
    /\ Quiescent
    /\ value[s] = 1
    /\ waiters[s] # <<>>
    /\ \E t \in Woken(s) : status[t] = "READY"

\* The place of x in the sequence q.
Pos(q, x) == SetMin({i \in 1..Len(q) : q[i] = x})

\* A step takes a thread off semaphore s's waiter list: the thread it takes.
Pops(s) == Len(waiters'[s]) < Len(waiters[s])

Popped(s) == CHOOSE t \in Range(waiters[s]) : t \notin Range(waiters'[s])

\* The waiters of semaphore s in order of arrival.
Arrived(s) == [i \in 1..Len(arrival[s]) |-> arrival[s][i][1]]

\* No waiter of semaphore s has had its effective priority changed since it was
\* put on the waiter list.
AsEnqueued(s) == \A i \in 1..Len(arrival[s]) : priority[arrival[s][i][1]] = arrival[s][i][2]

\* C7 as stated: every sema_up that unblocks a waiter unblocks one of highest
\* effective priority at that instant, and among those the first to have arrived.
C7_WakesHighestEarliest ==
  [][\A s \in Semas : Pops(s) =>
       \A u \in Range(waiters[s]) \ {Popped(s)} :
         \/ priority[u] < priority[Popped(s)]
         \/ /\ priority[u] = priority[Popped(s)]
            /\ Pos(Arrived(s), Popped(s)) < Pos(Arrived(s), u)]_vars

\* C7 amended: every sema_up that unblocks a waiter unblocks one of highest
\* effective priority at that instant, and among those the one standing first
\* on the waiter list; when no waiter on the list has had its effective
\* priority changed since it was enqueued, that one is the first of them to
\* have arrived.
C7_WakesHighestFirstListed ==
  [][\A s \in Semas : Pops(s) =>
       \A u \in Range(waiters[s]) \ {Popped(s)} :
         \/ priority[u] < priority[Popped(s)]
         \/ /\ priority[u] = priority[Popped(s)]
            /\ Pos(waiters[s], Popped(s)) < Pos(waiters[s], u)
            /\ AsEnqueued(s) => Pos(Arrived(s), Popped(s)) < Pos(Arrived(s), u)]_vars

\* C7 witness: a woken waiter that is above the waiters left behind only by a
\* donation it received while it waited: one of them has a base above its own.
C7_Witness ==
  \E s \in Semas : \E t \in Woken(s) : \E u \in Range(waiters[s]) :
    /\ status[t] = "READY"
    /\ priority[t] > original_priority[t]
    /\ priority[u] < priority[t]
    /\ original_priority[u] > original_priority[t]

\* The places of thread t on the ready queue, the sleeper queue and the waiter
\* lists of all semaphores.
Places(t) ==
  {<<"ready", i>> : i \in {j \in 1..Len(ready_list) : ready_list[j] = t}}
  \cup {<<"sleep", i>> : i \in {j \in 1..Len(sleep_list) : sleep_list[j] = t}}
  \cup UNION {{<<s, i>> : i \in {j \in 1..Len(waiters[s]) : waiters[s][j] = t}} : s \in Semas}

\* C5: a thread is at no more than one place of the ready queue, the sleeper
\* queue and the semaphores' waiter lists taken together.
C5_OneQueueAtATime == \A t \in Threads : Cardinality(Places(t)) <= 1

\* C5 witness: lock_acquire has raised a READY holder, which is on the ready
\* queue, while its donor is the running thread about to block.
C5_Witness ==
  \E t, h \in Threads :
    /\ pc[t] = "la_sd" /\ status[t] = "RUNNING"
    /\ holder[arg[t]] = h
    /\ status[h] = "READY" /\ h \in Range(ready_list)
    /\ priority[h] > original_priority[h]

\* C6: a thread in timer_sleep (n), n > 0, that read the tick count t0 is not
\* made ready before the count reaches t0 + n, and when it returns at least n
\* ticks have elapsed since t0.
C6_SleepsLongEnough ==
  [][\A t \in Threads :
       /\ (pc[t] = "ts_blk" /\ status[t] = "BLOCKED" /\ status'[t] # "BLOCKED")
            => ticks' >= sleep_t0[t] + sleep_n[t]
       /\ (pc[t] = "ts_blk" /\ pc'[t] = "idle")
            => ticks' - sleep_t0[t] >= sleep_n[t]]_vars

\* C6 witness: a timer interrupt fired between the reading of the tick count and
\* the entry into the sleeper queue: the thread is asleep on the queue with its
\* tick already reached, to be woken by the next interrupt.
C6_Witness ==
  \E t \in Threads :
    /\ pc[t] = "ts_blk" /\ status[t] = "BLOCKED" /\ t \in Range(sleep_list)
    /\ sleep_n[t] > 0
    /\ ticks >= sleep_t0[t] + sleep_n[t]
    /\ ticks < MaxTicks

\* A thread in cond_wait that has released the lock and not yet called
\* sema_down on its private semaphore.
BeforeDown(t) == pc[t] \in {"cw_y1", "cw_y2", "cw_sd"}

\* The record of t is off the condition's list and the cond_signal that took
\* it has not yet called sema_up on its semaphore.
SignalUnderWay(t) == \E u \in Threads : pc[u] = "cs_up" /\ arg[u] = t

\* C10: a signal is not lost.  A waiter whose record a completed cond_signal
\* took before the waiter blocked finds its private semaphore at 1, so its
\* sema_down does not block; a waiter blocked on its private semaphore still has
\* its record on the condition's list, or the cond_signal that took it is about
\* to wake it; and the two threads of the monitor program are never both waiting
\* on a semaphore, which with no third thread to wake them would be for ever.
C10_NoLostSignal ==
  /\ \A t \in Threads :
       /\ (BeforeDown(t) /\ t \notin Range(cond_waiters) /\ ~SignalUnderWay(t))
            => value[CondSema(t)] = 1
       /\ t \in Range(waiters[CondSema(t)])
            => t \in Range(cond_waiters) \/ SignalUnderWay(t)
  /\ ~(\A t \in Pair : \E s \in Semas : t \in Range(waiters[s]))
  /\ kernel = "ok"

\* C10 witness: the signal came in the window: the waiter has released the lock
\* and is not yet in sema_down, its record is gone and its semaphore is at 1.
C10_Witness ==
  \E t \in Threads :
    /\ BeforeDown(t)
    /\ t \notin Range(cond_waiters)
    /\ value[CondSema(t)] = 1

\* The thread whose record a step takes off the condition's list.
Signalled == CHOOSE t \in Range(cond_waiters) : t \notin Range(cond_waiters')

\* C11: a cond_signal on a condition with several waiters wakes the waiter of
\* highest effective priority at that time, whatever the order of the
\* cond_wait calls.
C11_SignalWakesHighest ==
  [][\A t \in Threads :
       /\ (CondSignalSort(t) /\ Len(cond_waiters) >= 2) => kernel' = "ok"
       /\ CondSignalPop(t) =>
            /\ kernel' = "ok"
            /\ Len(cond_waiters') = Len(cond_waiters) - 1
            /\ \A u \in Range(cond_waiters) : priority[u] <= priority[Signalled]
            /\ pc'[t] = "cs_up" /\ arg'[t] = Signalled
       /\ CondSignalUp(t) => status'[arg[t]] # "BLOCKED"]_vars

\* The same with every waiter already blocked on its private semaphore.
C11_SignalWakesHighestBlocked ==
  [][\A t \in Threads :
       /\ (CondSignalSort(t) /\ Len(cond_waiters) >= 2 /\ ~SortAsserts(cond_waiters)) =>
            kernel' = "ok"
       /\ CondSignalPop(t) =>
            /\ kernel' = "ok"
            /\ Len(cond_waiters') = Len(cond_waiters) - 1
            /\ \A u \in Range(cond_waiters) : priority[u] <= priority[Signalled]
            /\ pc'[t] = "cs_up" /\ arg'[t] = Signalled
       /\ CondSignalUp(t) => status'[arg[t]] # "BLOCKED"]_vars

\* Two waiters are blocked, the later one of higher priority than the earlier,
\* and the holder of the lock is about to signal.
C11_TwoBlockedWaiters ==
  /\ Len(cond_waiters) = 2
  /\ ~SortAsserts(cond_waiters)
  /\ priority[cond_waiters[1]] < priority[cond_waiters[2]]
  /\ \E t \in Threads : Runs(t, "idle") /\ holder[1] = t

\* The waiter that a step takes off the user semaphore's waiter list.
IntrWoken == CHOOSE u \in Range(waiters[UserSema]) : u \notin Range(waiters'[UserSema])

\* C12: sema_up called by an interrupt handler that unblocks a thread of
\* strictly higher effective priority than the interrupted thread fails no
\* assertion and does not yield directly: the kernel keeps running and the
\* interrupted thread is still the running thread when the handler is done.
C12_IntrSemaUpDefersYield ==
  [][(/\ IntrSemaUp
      /\ Cur # NULL
      /\ waiters[UserSema] # <<>>
      /\ priority[IntrWoken] > priority[Cur]) =>
        /\ kernel' = "ok"
        /\ status'[Cur] = "RUNNING"]_vars

\* Thread t leaves sema_up or lock_release in this step.
Returns(t) ==
  /\ SemaUpPreempt(t) \/ SemaUpYield(t) \/ LockReleaseEnter(t) \/ LockReleaseResume(t)
  /\ pc'[t] = "idle"
  /\ kernel' = "ok"

\* C13: when sema_up or lock_release is left in thread context, no READY
\* thread has strictly higher effective priority than the running thread; the
\* caller stays the running thread only if no READY thread is above it.
C13_NoHigherReadyOnReturn ==
  [][\A t \in Threads :
       Returns(t) =>
         /\ \E r \in Threads : status'[r] = "RUNNING"
         /\ \A u, r \in Threads :
              (status'[u] = "READY" /\ status'[r] = "RUNNING") =>
                priority'[u] <= priority'[r]
         /\ status'[t] \in {"RUNNING", "READY"}]_vars

\* A thread that yielded inside lock_release to a thread of higher priority,
\* and a thread that yielded at the end of sema_up likewise.
C13_YieldedOnRelease ==
  \E t \in Threads :
    /\ pc[t] = "lr_y1" /\ status[t] = "READY"
    /\ Cur # NULL /\ priority[Cur] > priority[t]
    /\ pc[Cur] = "la_blk"

\* The locks on thread t's list of held locks, front to back.
HoldingLocks(t) == HeldWalk(holding_locks, t).locks

\* How many times lock l is linked in thread t's list of held locks.
Listed(t, l) == Cardinality({i \in DOMAIN HoldingLocks(t) : HoldingLocks(t)[i] = l})

\* C14: a lock that has a holder is linked exactly once in the holder's list of
\* held locks, whether it was taken by lock_acquire or by lock_try_acquire.
C14_HeldLockListedOnce ==
  \A l \in Locks : holder[l] # NULL => Listed(holder[l], l) = 1

\* A step that calls an operation against its precondition.
Misuse ==
  \/ IntrSemaDown
  \/ \E t \in Threads : LockAcquireHeld(t, 1) \/ LockReleaseUnheld(t, 1)

\* C15: sema_down from interrupt context, lock_release of a lock the caller
\* does not hold and lock_acquire of a lock the caller holds each halt the
\* kernel with every semaphore value, waiter queue, holder and priority, and
\* every thread state and queue besides, as it was.
C15_MisuseHaltsUnchanged ==
  [][Misuse =>
       /\ kernel' = "panic"
       /\ UNCHANGED <<value, waiters, holder, priority, original_priority, status,
                      ready_list, holding_locks, wait_on_lock, cond_waiters,
                      sleep_list>>]_vars

\* The kernel halted in lock_release called by a thread on a lock that another
\* thread holds: the holder is still there.
C15_HaltedInRelease ==
  /\ kernel = "panic"
  /\ \E t \in Threads : pc[t] = "lr_assert" /\ holder[1] \notin {NULL, t}

\* The handler calls that the claim says fail, and those of them that do.
IntrFailing ==
  \/ IntrLockAcquire \/ IntrCondWait \/ IntrCondSignal
  \/ IntrCondBroadcast /\ cond_waiters # <<>>

\* C16 as stated: lock_acquire, lock_try_acquire, lock_release, cond_wait,
\* cond_signal and cond_broadcast each fail an assertion when a handler calls
\* them, and sema_try_down and sema_up are accepted.
C16_LockAndCondFailInHandler ==
  [][/\ (\/ IntrFailing \/ IntrCondBroadcast
         \/ IntrLockTryAcquire(1) \/ IntrLockRelease(1)) => kernel' = "panic"
     /\ (IntrSemaTryDown \/ IntrSemaUp) => kernel' = "ok"]_vars

\* What the calls of a handler do in the code, where C16 says otherwise:
\* lock_acquire, cond_wait, cond_signal, and cond_broadcast on a condition with
\* waiters, fail an assertion with nothing changed; cond_broadcast on a
\* condition without waiters returns with nothing changed; lock_try_acquire by
\* a handler whose interrupted thread does not hold the lock fails no assertion
\* and takes a free lock for that thread; lock_release of a lock the
\* interrupted thread holds fails no assertion of the context and gives the
\* lock up, and halts only if the element is unlinked or a yield follows;
\* sema_try_down is accepted, and sema_up does its work and halts only where
\* it goes on to thread_yield.
InHandler ==
  [][/\ IntrFailing =>
          /\ kernel' = "panic"
          /\ UNCHANGED <<value, waiters, holder, priority, status, ready_list,
                         holding_locks, cond_waiters>>
     /\ (IntrCondBroadcast /\ cond_waiters = <<>>) =>
          /\ kernel' = "ok"
          /\ UNCHANGED <<value, waiters, holder, priority, status, ready_list,
                         holding_locks, cond_waiters>>
     /\ (IntrLockTryAcquire(1) /\ holder[1] # Cur) =>
          /\ kernel' = "ok"
          /\ holder'[1] = IF value[LockSema(1)] > 0 THEN Cur ELSE holder[1]
     /\ (IntrLockRelease(1) /\ holder[1] = Cur) =>
          \/ holder'[1] = NULL /\ value'[LockSema(1)] = value[LockSema(1)] + 1
          \/ kernel' = "panic" /\ Listed(Cur, 1) = 0 /\ UNCHANGED <<holder, value>>
     /\ IntrSemaTryDown => kernel' = "ok"
     /\ IntrSemaUp =>
          /\ value'[UserSema] = value[UserSema] + 1
          /\ kernel' = "panic" =>
               /\ ready_list' # <<>>
               /\ Cur # NULL => priority[Head(ready_list')] > priority[Cur]]_vars

\* C17: in a timer interrupt the per-tick accounting runs after the sleepers
\* due at the new tick count were taken off the sleeper queue and unblocked:
\* when the accounting runs, no sleeper with wake tick <= ticks is left asleep.
C17_AccountingAfterWake ==
  [][ThreadTick => \A t \in Range(sleep_list) : wakeup_tick[t] > ticks]_vars

\* C18: timer_sleep (n) with n <= 0 returns at once: the caller is still the
\* running thread, between two operations, and no thread's state, no queue,
\* no wake tick and not the tick count has changed.
C18_NonPositiveSleepReturns ==
  [][\A t \in Threads : \A n \in TimerSleepArgs :
       (TimerSleep(t, n) /\ n <= 0) =>
         /\ status'[t] = "RUNNING" /\ pc'[t] = "idle"
         /\ UNCHANGED <<status, pc, sleep_list, ready_list, waiters, cond_waiters,
                        wakeup_tick, ticks>>]_vars

\* Calls of timer_sleep have been made and returned before the first tick, with
\* no thread ever put to sleep: their arguments were not positive.
C18_ReturnedAtOnce ==
  /\ ops < MaxOpsTimer
  /\ ticks = 0 /\ irq = "none"
  /\ \A t \in Threads : pc[t] = "idle" /\ status[t] # "BLOCKED" /\ sleep_n[t] = 0
  /\ sleep_list = <<>>

\* What sema_up on a semaphore without waiters does inside its
\* interrupt-disabled section: the value goes up by one and nothing else moves.
EmptyUpBody(t) ==
  (SemaUp(t) /\ waiters[UserSema] = <<>>) =>
    /\ value'[UserSema] = value[UserSema] + 1
    /\ UNCHANGED <<status, ready_list, waiters, sleep_list, cond_waiters, priority>>

\* C19 as stated: sema_up on a semaphore without waiters raises the value by
\* one, changes no thread's state and no queue, and the caller does not yield,
\* whatever the ready queue holds.
C19_EmptyUpNeverYields ==
  [][\A t \in Threads :
       /\ EmptyUpBody(t)
       /\ (SemaUpPreempt(t) /\ waiters[UserSema] = <<>>) =>
            /\ UNCHANGED <<status, ready_list>>
            /\ pc'[t] = "idle"]_vars

\* C19, amended: sema_up on a semaphore without waiters raises the value by one
\* and changes no thread's state and no queue inside its section; at its end
\* the caller tests, with no thread's state and no queue changed, whether the
\* head of the ready queue has strictly higher effective priority, returns if
\* not and goes on to thread_yield if so; the yield, a later step, gives the
\* processor to the head of the ready queue as it is then if that thread's
\* effective priority is no lower than the caller's, equal included, and
\* otherwise leaves the caller running.
C19_EmptyUpYieldsOnlyToHigher ==
  [][\A t \in Threads :
       /\ EmptyUpBody(t)
       /\ (SemaUpPreempt(t) /\ waiters[UserSema] = <<>>) =>
            /\ UNCHANGED <<status, ready_list>>
            /\ pc'[t] = IF ready_list # <<>> /\ priority[Head(ready_list)] > priority[t]
                        THEN "su_yld" ELSE "idle"
       /\ SemaUpYield(t) =>
            IF ready_list # <<>> /\ priority[Head(ready_list)] >= priority[t]
            THEN /\ status'[t] = "READY"
                 /\ status'[Head(ready_list)] = "RUNNING"
                 /\ Range(ready_list') = (Range(ready_list) \ {Head(ready_list)}) \cup {t}
            ELSE UNCHANGED <<status, ready_list>>]_vars

\* A caller of sema_up, no thread having ever waited for the semaphore, has
\* raised the value and finds a thread of higher priority ready, woken by the
\* timer.
C19_HigherReadyAfterEmptyUp ==
  \E t \in Threads :
    /\ pc[t] = "su_yld" /\ status[t] = "RUNNING" /\ kernel = "ok"
    /\ waiters[UserSema] = <<>>
    /\ value[UserSema] >= 1
    /\ ready_list # <<>> /\ priority[Head(ready_list)] > priority[t]

\* C20: sema_try_down never blocks.  With value > 0 it takes one from the value
\* and reports success (lock_try_acquire, which calls it, goes on to set the
\* holder); with value = 0 it reports failure and the value is as it was.
\* Either way it is one step with interrupts off in which no waiter queue and
\* no thread's state changes and the caller is still the running thread.
C20_TryDownNeverBlocks ==
  [][\A t \in Threads :
       /\ SemaTryDown(t) =>
            /\ value'[UserSema] =
                 IF value[UserSema] > 0 THEN value[UserSema] - 1 ELSE value[UserSema]
            /\ value'[UserSema] >= 0
            /\ status'[t] = "RUNNING"
            /\ UNCHANGED <<status, waiters, ready_list, pc>>
       /\ \A l \in Locks :
            (LockTryAcquireDown(t) /\ arg[t] = l) =>
              /\ IF value[LockSema(l)] > 0
                 THEN /\ value'[LockSema(l)] = value[LockSema(l)] - 1
                      /\ pc'[t] = "lt_set"
                 ELSE /\ UNCHANGED value
                      /\ pc'[t] = "idle"
              /\ status'[t] = "RUNNING"
              /\ UNCHANGED <<status, waiters, ready_list, holder>>]_vars

\* A thread's lock_try_acquire has taken the last unit of a lock's semaphore by
\* sema_try_down and is about to record itself as the holder.
C20_TookByTry ==
  \E t \in Threads : \E l \in Locks :
    /\ pc[t] = "lt_set" /\ arg[t] = l /\ status[t] = "RUNNING"
    /\ value[LockSema(l)] = 0 /\ holder[l] = NULL
    /\ waiters[LockSema(l)] = <<>>

\* The step in which thread t's lock_release of the noted lock is done.
RoundTripDone(t) ==
  /\ noted.phase \in {"open", "releasing"} /\ noted.t = t
  /\ noted'.phase = "closed"

\* C21: once a thread has completed lock_acquire (L) and then lock_release (L),
\* every other thread that stands as it stood at the lock_acquire call (same
\* locks held, same waiters for them with the same priorities) has the
\* effective priority it had at that call.
C21_RoundTripLeavesNoResidue ==
  [][\A t \in Threads :
       RoundTripDone(t) =>
         \A u \in Threads \ {t} : StandsAgain(u) => priority'[u] = noted.pri[u]]_vars

\* No waiter of lock l has a higher effective priority than thread t's base.
WaitersBelowBase(t, l) ==
  \A w \in Range(waiters[LockSema(l)]) : priority[w] <= original_priority[t]

\* C22 as stated: lock_release of a lock whose waiters all have effective
\* priority <= the releaser's base priority leaves the releaser's effective
\* priority equal to its base priority.
C22_ReleaseRestoresBase ==
  [][\A t \in Threads : \A l \in Locks :
       (LockReleaseEnter(t) /\ arg[t] = l /\ kernel' = "ok" /\ WaitersBelowBase(t, l)) =>
         priority'[t] = original_priority[t]]_vars

\* C22, amended: lock_release by a thread none of whose locks, the released
\* one, those it goes on holding and those the release leaves linked on its
\* list of held locks, has a waiter of effective priority above the thread's
\* base priority leaves the thread's effective priority equal to its base
\* priority.
C22_ReleaseRestoresBaseIfAllBelow ==
  [][\A t \in Threads : \A l \in Locks :
       (/\ LockReleaseEnter(t) /\ arg[t] = l /\ kernel' = "ok"
        /\ \A m \in Locks :
             (holder[m] = t \/ m \in Range(HeldWalk(holding_locks', t).locks))
               => WaitersBelowBase(t, m)) =>
         priority'[t] = original_priority[t]]_vars

\* A thread has released a lock to a waiter of no higher priority than its
\* base and runs on at its base priority, the other threads never having run.
C22_ReleasedAtBase ==
  \E t, w \in Threads : \E l \in Locks :
    /\ status[t] = "RUNNING" /\ pc[t] = "idle" /\ kernel = "ok"
    /\ priority[t] = original_priority[t]
    /\ holder[l] = NULL /\ status[w] = "READY" /\ pc[w] = "la_blk" /\ arg[w] = l
    /\ w \notin Range(waiters[LockSema(l)])
    /\ priority[w] <= original_priority[t]
    /\ \A u \in Threads \ {t, w} : status[u] = "NONE" \/ u \in Range(sleep_list)

\* C23: no step of a lock, semaphore or timer operation changes any thread's
\* base priority; the donation walk of lock_acquire and the recomputation of
\* lock_release change effective priorities only.
C23_BasePriorityNeverWritten ==
  [][original_priority' = original_priority]_vars

\* A thread holds a lock above its base priority, on the donation of a thread
\* that waits for the lock.
C23_DonatedAboveBase ==
  \E t, u \in Threads :
    /\ priority[t] > original_priority[t]
    /\ wait_on_lock[u] # NULL /\ holder[wait_on_lock[u]] = t
    /\ priority[u] = priority[t]

\* The places of cond_wait between its lock_release and its lock_acquire.
CondWaitInside == {"cw_y1", "cw_y2", "cw_sd", "cw_blk", "cw_la"}

\* C24: from the lock_release in cond_wait (c, L) to its lock_acquire the
\* caller is not L's holder, in particular not while it is blocked on its
\* private semaphore; and the step in which its lock_acquire, and with it
\* cond_wait, returns leaves it L's holder.
C24_WaitsWithoutLock ==
  [][\A t \in Threads :
       /\ pc[t] \in CondWaitInside => holder[arg[t]] # t
       /\ (pc[t] \in CondWaitInside /\ status[t] = "BLOCKED") =>
            t \in Range(waiters[CondSema(t)])
       /\ (LockAcquireFinish(t) /\ pc'[t] = "idle") => holder'[arg[t]] = t]_vars

\* While a thread is blocked in cond_wait on its private semaphore, another
\* thread holds the lock.
C24_OtherHoldsDuringWait ==
  \E t, u \in Threads :
    /\ t # u /\ pc[t] = "cw_blk" /\ status[t] = "BLOCKED"
    /\ t \in Range(waiters[CondSema(t)])
    /\ holder[arg[t]] = u

\* C25: cond_signal (c, L) leaves its caller the holder of L, at its test of
\* the list, at the sort, when it takes the record off, at the wake-up and at
\* the preemption test and the yield that end it, whichever thread ran in
\* between;
\* and a thread's lock_acquire of L, the one that ends cond_wait among them,
\* returns only from a state in which L has no holder: the signaller has
\* released it.
C25_SignalKeepsLock ==
  [][\A t \in Threads :
       /\ (\/ CondSignal(t, 1) \/ CondSignalTest(t) \/ CondSignalSort(t)
           \/ CondSignalPop(t) \/ CondSignalUp(t)
           \/ SemaUpPreempt(t) \/ SemaUpYield(t))
            => holder[1] = t /\ holder'[1] = t
       /\ pc[t] \in {"cs_test", "cs_sort", "cs_pop", "cs_up", "su_chk", "su_yld"}
            => holder[1] = t
       /\ LockAcquireFinish(t) => holder[arg[t]] = NULL]_vars

\* The signalled waiter, of higher priority than the signaller, has run and
\* taken its private semaphore, and the signaller, which gave way to it at the
\* end of cond_signal, is still the holder.
C25_WaiterRanSignallerHolds ==
  \E t, w \in Threads :
    /\ pc[w] = "cw_la" /\ status[w] = "RUNNING"
    /\ holder[1] = t /\ t # w /\ status[t] = "READY" /\ pc[t] = "idle"
    /\ priority[w] > priority[t]

\* C26: the two threads of the semaphore self-test both make all their passes,
\* in every order of their steps and of the timer's, with the helper created
\* below, at or above the priority of its creator, and whether or not the
\* creator gives way to it at once: the run is never halted, the two are never
\* both on a waiter list, and in the end both are through.  There are two
\* threads only if thread_create made the helper; if it failed the property
\* asks nothing of the end.
C26_SelfTestCompletes ==
  /\ [](kernel = "ok" /\ ~(\A t \in Pair : \E s \in Semas : t \in Range(waiters[s])))
  /\ <>(\/ \A t \in Pair : stage[t] = "done" /\ rounds[t] = MaxRounds
        \/ stage[turn] # "start" /\ \E t \in Pair : status[t] = "NONE")

\* Both threads are through and have exited, the two have different
\* priorities, and the timer preempted the run.
C26_BothDone ==
  /\ \A t \in Pair : stage[t] = "done" /\ rounds[t] = MaxRounds /\ status[t] = "DYING"
  /\ ticks > 0
  /\ priority[1] # priority[2]

\* Thread c is a child of t that no process_wait of t has returned the status of.
Unwaited(t, c) ==
  c \in Threads /\ proc.parent[c] = t /\ <<t, c>> \notin proc.waited

\* The places of a process_wait between its sema_down and its sema_up.
InProcessWait == {"pw_blk", "pw_got", "pw_rm", "pw_up"}

\* C27: process_wait (tid) by t returns -1 in the same step, the caller still
\* running, when tid is not the id of a child of t or a process_wait of t has
\* returned that child's status before; for a child not yet waited for it
\* blocks exactly if the child has not exited, and it goes on to return only
\* once the child has exited, with the child's exit status, the child off the
\* caller's list, and never twice for one child.
C27_WaitOncePerChild ==
  [][\A t \in Threads :
       /\ \A tid \in WaitArgs :
            ProcessWait(t, tid) =>
              IF Unwaited(t, tid)
              THEN /\ pc'[t] = (IF tid \in proc.exited THEN "pw_got" ELSE "pw_blk")
                   /\ status'[t] = (IF tid \in proc.exited THEN "RUNNING" ELSE "BLOCKED")
              ELSE /\ proc'.ret[t] = -1
                   /\ pc'[t] = "idle" /\ status'[t] = "RUNNING"
       /\ ProcessWaitStatus(t) =>
            /\ Unwaited(t, proc.child[t])
            /\ proc.child[t] \in proc.exited
            /\ proc'.ret[t] = proc.exit_status[proc.child[t]]
       /\ ProcessWaitReap(t) =>
            /\ Unwaited(t, proc.child[t])
            /\ proc.child[t] \in proc.exited
            /\ proc.child[t] \notin Range(proc.children[t])
            /\ proc'.ret[t] = proc.exit_status[proc.child[t]]
       /\ (pc[t] \in InProcessWait /\ pc'[t] \notin InProcessWait) =>
            ProcessWaitReap(t)]_vars

\* A second process_wait for a child whose status, 1, the first one returned:
\* it has returned -1.
C27_SecondWaitRefused ==
  \E t, c \in Threads :
    /\ <<t, c>> \in proc.waited /\ proc.exit_status[c] = 1
    /\ proc.call[t] = <<"wait", c>> /\ proc.ret[t] = -1
    /\ pc[t] = "idle" /\ status[t] = "RUNNING"

\* C28: process_fork returns in the parent only after the child has finished
\* its copies or failed one of them; it then returns the child's id exactly if
\* the child reported success (it reached line 219, be it with a slot for which
\* file_duplicate returned NULL) and TID_ERROR exactly if the child reported
\* failure (goto error); the report is what the child wrote last; without a
\* child (thread_create failed) it returns TID_ERROR.
C28_ForkReturnsChildOutcome ==
  [][\A t \in Threads :
       /\ ProcessForkReturn(t) =>
            LET c == proc.child[t]
            IN /\ proc.copied[c] \in {"ok", "fail"}
               /\ pc[c] \notin {"df_copy", "df_dup", "df_set", "df_up"}
               /\ proc.fork_success[t] <=> proc.copied[c] = "ok"
               /\ proc'.ret[t] = c <=> proc.copied[c] = "ok"
               /\ proc'.ret[t] = TID_ERROR <=> proc.copied[c] = "fail"
       /\ (ProcessFork(t) /\ pc'[t] = "idle") =>
            proc'.ret[t] = TID_ERROR /\ proc'.children = proc.children
       /\ (pc[t] \in {"pf_sd", "pf_blk", "pf_ret"} /\ pc'[t] \notin {"pf_sd", "pf_blk", "pf_ret"}) =>
            ProcessForkReturn(t)]_vars

\* A child of higher priority than its parent failed a copy and has gone on to
\* exit, and the parent's process_fork has returned TID_ERROR.
C28_FailedChildReported ==
  \E t, c \in Threads :
    /\ proc.parent[c] = t /\ proc.child[t] = c /\ proc.copied[c] = "fail"
    /\ priority[c] > priority[t]
    /\ proc.call[t] = <<"fork", NULL>> /\ proc.ret[t] = TID_ERROR
    /\ pc[t] = "idle" /\ status[t] = "RUNNING"

\* C29: a thread whose wait_on_lock is not NULL is BLOCKED and is on the waiter
\* list of that lock's semaphore.
C29_WaitingMeansBlocked ==
  \A t \in Threads :
    wait_on_lock[t] # NULL =>
      /\ status[t] = "BLOCKED"
      /\ t \in Range(waiters[LockSema(wait_on_lock[t])])

\* C30: when cond_signal sorts a condition's records and so compares them (there
\* are two or more), every record has exactly one thread on its private
\* semaphore's waiter list, the comparator's list_front reads a non-empty list,
\* and the kernel runs on.
C30_RecordsHaveTheirWaiter ==
  [][\A t \in Threads :
       (CondSignalSort(t) /\ Len(cond_waiters) >= 2) =>
         /\ \A w \in Range(cond_waiters) : Len(waiters[CondSema(w)]) = 1
         /\ kernel' = "ok"]_vars

\* The queue q is in descending order of priority.
Descending(q, pr) == \A i, j \in 1..Len(q) : i < j => pr[q[i]] >= pr[q[j]]

\* A thread that a step leaves on the ready queue with the priority it had.
StaysReady(u) ==
  u \in Range(ready_list) /\ u \in Range(ready_list') /\ priority'[u] = priority[u]

\* C31: the ready queue is in descending order of effective priority in every
\* state, and first-in first-out among equals: a step keeps the order of the
\* threads that stay on the queue with their priority, and a thread that it
\* puts on the queue, or whose priority it changes (the READY target of a
\* donation in lock_acquire), stands behind every such thread of its priority.
C31_ReadyQueueSorted ==
  /\ Descending(ready_list, priority)
  /\ [][/\ Descending(ready_list', priority')
        /\ \A u, v \in Threads :
             (StaysReady(u) /\ StaysReady(v) /\ Pos(ready_list, u) < Pos(ready_list, v))
               => Pos(ready_list', u) < Pos(ready_list', v)
        /\ \A u, v \in Threads :
             (u \in Range(ready_list') /\ ~StaysReady(u) /\ StaysReady(v)
                /\ priority'[v] = priority'[u])
               => Pos(ready_list', v) < Pos(ready_list', u)]_vars

\* A donation has moved a READY lock holder: the donor has set wait_on_lock and
\* not yet called sema_down, and the holder, raised above its base priority,
\* stands on the ready queue ahead of a thread whose priority is at least the
\* holder's base.
C31_DonationMovedReadyHolder ==
  \E d \in Threads : \E i, j \in 1..Len(ready_list) :
    /\ pc[d] = "la_sd" /\ wait_on_lock[d] # NULL
    /\ holder[wait_on_lock[d]] = ready_list[i]
    /\ priority[ready_list[i]] = priority[d]
    /\ priority[ready_list[i]] > original_priority[ready_list[i]]
    /\ i < j
    /\ priority[ready_list[j]] >= original_priority[ready_list[i]]
    /\ priority[ready_list[j]] < priority[ready_list[i]]

\* C32: every thread's effective priority is at least its base priority, in
\* every state.
C32_EffectiveAtLeastBase ==
  \A t \in Threads : priority[t] >= original_priority[t]

\* A thread of lower priority than the holder waits for the lock, blocked, and
\* the holder stands at its base priority.
C32_LowerWaiterLeavesHolder ==
  \E d, h \in Threads : \E l \in Locks :
    /\ wait_on_lock[d] = l /\ pc[d] = "la_blk" /\ holder[l] = h
    /\ priority[d] < priority[h]
    /\ priority[h] = original_priority[h]

\* C33: no wake event is lost.  In thread context, after the timer interrupt
\* that brought the tick count to the wake tick t0 + n of a thread in
\* timer_sleep (n), n > 0, that thread is not on the sleeper queue and not
\* BLOCKED, and no thread on the sleeper queue has a wake tick that is reached.
C33_AwakeFromWakeTick ==
  irq = "none" =>
    /\ \A t \in Range(sleep_list) : wakeup_tick[t] > ticks
    /\ \A t \in Threads :
         (pc[t] \in {"ts_call", "ts_blk"} /\ sleep_n[t] > 0
            /\ ticks >= sleep_t0[t] + sleep_n[t])
           => t \notin Range(sleep_list) /\ status[t] # "BLOCKED"

\* C33 as it holds: when a timer interrupt completes, no thread is left on the
\* sleeper queue with a wake tick at or below the tick count, and every thread
\* that was on the queue with such a wake tick is READY or running; a thread
\* that enters the queue with its wake tick already reached is on it until the
\* interrupt after.
C33_InterruptWakesAllDue ==
  [][ThreadWakeup =>
       /\ \A t \in Range(sleep_list') : wakeup_tick[t] > ticks'
       /\ \A t \in Range(sleep_list) :
            wakeup_tick[t] <= ticks' =>
              t \notin Range(sleep_list') /\ status'[t] \in {"READY", "RUNNING"}
       /\ \A t \in Threads :
            (pc[t] = "ts_blk" /\ status'[t] = "BLOCKED") => wakeup_tick[t] > ticks']_vars

\* Two sleepers were woken by the interrupt that brought the tick count to their
\* wake tick, read before any interrupt.
C33_WokenAtTheirTick ==
  /\ irq = "none"
  /\ \E t, u \in Threads :
       /\ t # u
       /\ \A w \in {t, u} :
            /\ pc[w] = "ts_blk" /\ status[w] \in {"READY", "RUNNING"}
            /\ sleep_n[w] > 0 /\ ticks = sleep_t0[w] + sleep_n[w]

\* C34: when lock_release (L) is called while threads wait for L, the waiter of
\* highest effective priority at that instant is the next holder of L: while
\* the thread that the release woke has not yet run on in its sema_down, no
\* other thread takes L's semaphore, by lock_acquire or by lock_try_acquire.
C34_WokenWaiterIsNextHolder ==
  [][\A x \in Threads :
       (pc'[x] \in {"la_fin", "lt_set"} /\ pc[x] # pc'[x])
         => (Woken(LockSema(arg'[x])) = {} \/ x \in Woken(LockSema(arg'[x])))]_vars

\* C34 as it holds: a lock_release of a lock with waiters takes the waiter of
\* highest effective priority off the waiter list and makes it READY or
\* running, and leaves the lock without holder and its semaphore one higher;
\* the woken thread takes the lock when it runs on only if the semaphore is
\* still above 0, and otherwise blocks on the waiter list again.
C34_ReleaseWakesHighestWaiter ==
  [][/\ \A t \in Threads : \A l \in Locks :
          (LockReleaseEnter(t) /\ arg[t] = l /\ waiters[LockSema(l)] # <<>> /\ kernel' = "ok")
            => /\ holder'[l] = NULL
               /\ value'[LockSema(l)] = value[LockSema(l)] + 1
               /\ \E w \in Range(waiters[LockSema(l)]) :
                    /\ Range(waiters'[LockSema(l)]) = Range(waiters[LockSema(l)]) \ {w}
                    /\ \A u \in Range(waiters[LockSema(l)]) : priority[w] >= priority[u]
                    /\ status'[w] \in {"READY", "RUNNING"}
                    /\ pc'[w] = "la_blk"
     /\ \A w \in Threads :
          (pc[w] = "la_blk" /\ LockAcquireDown(w))
            => IF value[LockSema(arg[w])] > 0
               THEN pc'[w] = "la_fin" /\ w \notin Range(waiters'[LockSema(arg[w])])
               ELSE /\ pc'[w] = "la_blk" /\ status'[w] = "BLOCKED"
                    /\ w \in Range(waiters'[LockSema(arg[w])])]_vars

\* A thread that did not wait for the lock has taken its semaphore, by a
\* lock_acquire that found the lock without holder, while the waiter that the
\* release woke is READY and has not run on.
C34_TakenBeforeWokenWaiter ==
  \E w, x \in Threads : \E l \in Locks :
    /\ w # x
    /\ w \in Woken(LockSema(l)) /\ status[w] = "READY"
    /\ pc[x] = "la_fin" /\ arg[x] = l /\ wait_on_lock[x] = NULL
    /\ holder[l] = NULL

\* C35: lock_try_acquire never blocks and never donates.  On a free lock, one
\* without holder, it returns true and the caller becomes the holder; on a
\* held lock it returns false and leaves the holder, the semaphore value, the
\* waiter queue and every thread's effective priority unchanged.
C35_TryAcquireFreeOrUnchanged ==
  [][/\ \A t \in Threads : \A l \in Locks :
          (LockTryAcquireDown(t) /\ arg[t] = l)
            => /\ status' = status /\ priority' = priority
               /\ ready_list' = ready_list /\ waiters' = waiters
               /\ IF holder[l] = NULL
                  THEN pc'[t] = "lt_set" /\ arg'[t] = l
                  ELSE /\ pc'[t] = "idle"
                       /\ holder' = holder /\ value' = value
     /\ \A t \in Threads :
          LockTryAcquireSet(t)
            => /\ holder'[arg[t]] = t
               /\ status' = status /\ priority' = priority]_vars

\* ------------------------------------------------------------ cond_broadcast
\* cond_broadcast (&cond, lock) by the holder of lock, lines 458-460: the
\* function is entered; the records on cond->waiters at the call are noted,
\* with the caller and the lock
CondBroadcast(t, l) ==
  /\ Starts(t)
  /\ holder[l] = t
  /\ pc' = [pc EXCEPT ![t] = "cb_loop"]
  /\ arg' = [arg EXCEPT ![t] = l]
  /\ tally' = [tally EXCEPT !.records = Range(cond_waiters),
                            !.upped = [u \in Threads |-> 0],
                            !.caster = t, !.lock = l]
  /\ UNCHANGED <<status, priority, original_priority, wait_on_lock, holding_locks,
                 ready_list, value, waiters, holder, cond_waiters, kernel, owned,
                 arrival, timer, turn, stage, rounds, noted, proc, sys>>

\* cond_broadcast, line 462: while (!list_empty (&cond->waiters)); with no
\* record the function returns, otherwise it calls cond_signal
CondBroadcastLoop(t) ==
  /\ Runs(t, "cb_loop")
  /\ IF cond_waiters = <<>>
     THEN /\ pc' = [pc EXCEPT ![t] = "idle"]
          /\ arg' = [arg EXCEPT ![t] = NULL]
          /\ tally' = [tally EXCEPT !.caster = NULL, !.lock = NULL]
     ELSE /\ pc' = [pc EXCEPT ![t] = "cb_sig"]
          /\ UNCHANGED <<arg, tally>>
  /\ UNCHANGED <<status, priority, original_priority, wait_on_lock, holding_locks,
                 ready_list, value, waiters, holder, cond_waiters, kernel, owned,
                 arrival, timer, turn, stage, rounds, noted, proc, sys, ops>>

\* cond_broadcast, line 463: cond_signal (cond, lock) is called; its assertion
\* of line 441 stops the kernel if the caller does not hold the lock any more.
\* The call goes on as every cond_signal does.
CondBroadcastSignal(t) ==
  /\ Runs(t, "cb_sig")
  /\ IF lock_held_by_current_thread(arg[t], t)
     THEN pc' = [pc EXCEPT ![t] = "cs_test"] /\ UNCHANGED kernel
     ELSE kernel' = "panic" /\ UNCHANGED pc
  /\ UNCHANGED <<status, priority, original_priority, wait_on_lock, holding_locks,
                 ready_list, value, waiters, holder, cond_waiters, arg, owned, arrival,
                 timer, program, ops>>

\* sema_up, line 129, inside cond_signal inside the loop of cond_broadcast
CondBroadcastPreempt(t) ==
  /\ Runs(t, "cb_chk")
  /\ PreemptThen(t, "cb_yld", "cb_loop")

\* sema_up, line 130, inside cond_signal inside the loop of cond_broadcast
CondBroadcastYield(t) ==
  /\ Runs(t, "cb_yld")
  /\ YieldThen(t, "cb_loop")

BroadcastThreads == 3
MaxOpsBroadcast == 6

InitBroadcast ==
  \E k \in 0..MaxAsleep : \E wk \in WakeTicks(BroadcastThreads) :
    Booted(BroadcastThreads, k, wk, 0, MaxOpsBroadcast)

\* One lock and its condition variable, waited on and broadcast by any thread
\* that holds the lock.
NextBroadcast ==
  \/ \E t \in Threads :
       \/ LockAcquire(t, 1) \/ LockRelease(t, 1)
       \/ LockAcquireEnter(t) \/ LockReleaseEnter(t)
       \/ CondWait(t, 1) \/ CondWaitPush(t) \/ CondBroadcast(t, 1)
       \/ CondBroadcastLoop(t) \/ CondBroadcastSignal(t)
       \/ CondSignalTest(t) \/ CondSignalSort(t) \/ CondSignalPop(t) \/ CondSignalUp(t)
       \/ CondBroadcastPreempt(t) \/ CondBroadcastYield(t)
       \/ LockAcquireDown(t) \/ LockAcquireFinish(t) \/ LockReleaseResume(t)
       \/ CondWaitRelease(t) \/ CondWaitReleaseEnter(t) \/ CondWaitReleaseResume(t)
       \/ CondWaitDown(t) \/ CondWaitAcquire(t)
       \/ TimerSleepReturn(t)
  \/ TimerInterrupt

SpecBroadcast == InitBroadcast /\ [][NextBroadcast]_vars

\* A thread is inside cond_broadcast.
Broadcasting(t) == tally.caster = t

\* C36: cond_broadcast (c, L) terminates with c.waiters empty, and every thread
\* whose record was in c.waiters at the call has its private semaphore upped
\* exactly once: the kernel does not stop inside cond_broadcast, no record is
\* added to c.waiters while it runs, every pass of its loop takes one record
\* off, and at its return c.waiters is empty and its sema_up calls are one for
\* each record found at the call and none for any other.
C36_BroadcastUpsEachOnce ==
  [][\A t \in Threads :
       /\ Broadcasting(t) => kernel' = "ok" /\ Len(cond_waiters') <= Len(cond_waiters)
       /\ (Broadcasting(t) /\ CondSignalPop(t)) => Len(cond_waiters') < Len(cond_waiters)
       /\ (pc[t] = "cb_loop" /\ pc'[t] = "idle")
            => /\ cond_waiters' = <<>>
               /\ \A u \in Threads :
                    tally'.upped[u] = IF u \in tally'.records THEN 1 ELSE 0]_vars

\* C37: the donation walk of lock_acquire terminates in every reachable
\* configuration of holders and wait_on_lock references, also when the caller
\* closes a circular wait: no walk goes round a cycle of the wait-for graph, so
\* no thread is left in the loop with interrupts off and every caller goes on to
\* sema_down.
C37_DonationWalkTerminates ==
  /\ kernel # "hung"
  /\ \A t \in Threads : pc[t] # "la_spin"

\* ------------------------------------------------- a semaphore, counted
TallyThreads == 3
MaxOpsTally == 5

\* sema_init (&sema, v), lines 45-50, before any other call on the semaphore
TallySemaInit(t, v) ==
  /\ Starts(t)
  /\ ops = MaxOpsTally
  /\ value' = [value EXCEPT ![UserSema] = v]
  /\ waiters' = [waiters EXCEPT ![UserSema] = <<>>]
  /\ tally' = [tally EXCEPT !.init = v, !.ups = 0, !.downs = 0, !.again = 0]
  /\ UNCHANGED <<status, priority, original_priority, wait_on_lock, holding_locks,
                 ready_list, holder, cond_waiters, pc, arg, kernel, owned, arrival,
                 timer, turn, stage, rounds, noted, proc, sys>>

\* sema_down (&sema), lines 60-75; the call is complete when the value is taken
TallySemaDown(t) ==
  /\ Starts(t)
  /\ DoSemaDown(t, UserSema, "sd_blk", "idle")
  /\ tally' = IF SemaMustWait(value[UserSema]) THEN tally
              ELSE [tally EXCEPT !.downs = @ + 1]
  /\ UNCHANGED <<priority, original_priority, wait_on_lock, holding_locks, holder,
                 cond_waiters, arg, kernel, owned, timer, turn, stage, rounds, noted,
                 proc, sys>>

\* sema_down, lines 67-72: the loop again, after the waiter was unblocked
TallySemaDownLoop(t) ==
  /\ Runs(t, "sd_blk")
  /\ DoSemaDown(t, UserSema, "sd_blk", "idle")
  /\ tally' = IF SemaMustWait(value[UserSema])
              THEN [tally EXCEPT !.again = @ + 1]
              ELSE [tally EXCEPT !.downs = @ + 1]
  /\ UNCHANGED <<priority, original_priority, wait_on_lock, holding_locks, holder,
                 cond_waiters, arg, kernel, owned, timer, turn, stage, rounds, noted,
                 proc, sys, ops>>

\* sema_try_down (&sema), lines 82-100
TallySemaTryDown(t) ==
  /\ Starts(t)
  /\ value' = IF SemaCanTake(value[UserSema])
              THEN [value EXCEPT ![UserSema] = @ - 1] ELSE value
  /\ tally' = IF SemaCanTake(value[UserSema])
              THEN [tally EXCEPT !.downs = @ + 1] ELSE tally
  /\ UNCHANGED <<status, priority, original_priority, wait_on_lock, holding_locks,
                 ready_list, waiters, holder, cond_waiters, pc, arg, kernel, owned,
                 arrival, timer, turn, stage, rounds, noted, proc, sys>>

\* sema_up (&sema), lines 106-122: counted once the value is incremented; the
\* preemption test of lines 129-131 follows with interrupts on
TallySemaUp(t) ==
  /\ Starts(t)
  /\ DoSemaUp(t, UserSema, "su_chk")
  /\ tally' = [tally EXCEPT !.ups = @ + 1]
  /\ UNCHANGED <<priority, original_priority, wait_on_lock, holding_locks, holder,
                 cond_waiters, arg, kernel, owned, timer, turn, stage, rounds, noted,
                 proc, sys>>

InitTally ==
  \E k \in 0..MaxAsleep : \E wk \in WakeTicks(TallyThreads) :
    Booted(TallyThreads, k, wk, 0, MaxOpsTally)

\* One semaphore, initialised by the first thread to run and then used by all.
NextTally ==
  \/ \E t \in Threads :
       \/ \E v \in 0..MaxSemaInit : TallySemaInit(t, v)
       \/ TallySemaDown(t) \/ TallySemaDownLoop(t) \/ TallySemaTryDown(t)
       \/ TallySemaUp(t) \/ SemaUpPreempt(t) \/ SemaUpYield(t)
       \/ TimerSleepReturn(t)
  \/ TimerInterrupt

SpecTally == InitTally /\ [][NextTally]_vars

\* value = initial value + sema_up calls - sema_down and successful
\* sema_try_down calls, for the counted semaphore, and no value below 0
Conserved(val, ty) ==
  /\ val[UserSema] = ty.init + ty.ups - ty.downs
  /\ \A s \in Semas : val[s] >= 0

\* C38: the value of the semaphore is its initial value plus the sema_up calls
\* that have incremented it minus the sema_down and successful sema_try_down
\* calls completed, and no semaphore value is below 0, in every state; a waiter
\* that sema_up woke and that finds the value at 0 when it runs on, another
\* thread having taken it, blocks on the waiter list again and decrements
\* nothing.
C38_ValueConserved ==
  /\ Conserved(value, tally)
  /\ [][/\ Conserved(value', tally')
        /\ \A t \in Threads :
             (TallySemaDownLoop(t) /\ value[UserSema] = 0)
               => /\ value'[UserSema] = 0 /\ tally'.downs = tally.downs
                  /\ status'[t] = "BLOCKED" /\ pc'[t] = "sd_blk"
                  /\ t \in Range(waiters'[UserSema])]_vars

\* A woken waiter found the value taken and blocked again, after sema_up and
\* sema_down calls on a semaphore that started above 0.
C38_WokenWaiterBlockedAgain ==
  /\ tally.again > 0 /\ tally.init > 0
  /\ tally.ups > 0 /\ tally.downs > 1

\* ------------------------------------------------------ system call handlers
\* static struct lock filesys_lock, syscall.c line 38
FilesysLock == 1

STDIN_FILENO == 0
STDOUT_FILENO == 1

Handlers == {"read", "write", "filesize", "create", "remove", "open", "close"}

\* The handlers that take a file name; the others take a file descriptor.
ByName == {"create", "remove", "open"}

\* The file descriptors and file names a process passes: below, inside and
\* above the fd_table, and the empty name.
Fds == (-1)..FdtSize
Names == {"", "a"}

\* The tests a handler makes before its lock_acquire (&filesys_lock): TRUE if
\* it returns there.  read lines 171-190, filesize 203-205, write 225-249,
\* create 293-295, remove 307-309, open 321-323, close 359-371.
ReturnsEarly(h, fd, name, tab) ==
  IF h = "read"
  THEN \/ fd = STDOUT_FILENO \/ fd < 0 \/ fd >= FdtSize
       \/ fd = STDIN_FILENO
       \/ tab[fd] = NULL
  ELSE IF h = "write"
  THEN /\ fd # STDOUT_FILENO
       /\ \/ fd = STDIN_FILENO
          \/ fd < 0 \/ fd >= FdtSize
          \/ tab[fd] = NULL
  ELSE IF h = "filesize" THEN fd < 2 \/ fd >= FdtSize
  ELSE IF h = "close" THEN fd < 2 \/ fd >= FdtSize \/ tab[fd] = NULL
  ELSE name = ""

\* What a handler that returns before lock_acquire returns: the size for a read
\* from the keyboard (here 1), false for create and remove, -1 otherwise; close
\* returns nothing.
EarlyValue(h, fd, old) ==
  IF h = "close" THEN old
  ELSE IF h = "read" /\ fd = STDIN_FILENO THEN 1
  ELSE IF h \in {"create", "remove"} THEN 0
  ELSE -1

\* The error tests a handler makes while it holds filesys_lock: filesize line
\* 212 (no file at fd), open line 328 (filesys_open returned NULL); done tells
\* whether the file system call of the handler succeeded.
FailsInside(h, fd, tab, done) ==
  \/ h = "filesize" /\ tab[fd] = NULL
  \/ h = "open" /\ ~done

\* open, lines 337-343: the lowest free slot of the fd_table, -1 if none
FreeFd(tab) ==
  IF \E i \in DOMAIN tab : tab[i] = NULL
  THEN CHOOSE i \in DOMAIN tab : tab[i] = NULL /\ \A j \in DOMAIN tab : tab[j] = NULL => i <= j
  ELSE -1

\* The fd_table after the body of handler h: open stores the file in the lowest
\* free slot (lines 337-343), close clears the slot (line 378).
TableAfter(h, fd, name, tab, done) ==
  IF h = "open" /\ done /\ FreeFd(tab) # -1 THEN [tab EXCEPT ![FreeFd(tab)] = FileOf(name)]
  ELSE IF h = "close" THEN [tab EXCEPT ![fd] = NULL]
  ELSE tab

\* The value handler h returns after its body: bytes or length (here 1 or 0),
\* the result of filesys_create or filesys_remove, the new fd, or -1.
ValueAfter(h, fd, tab, done, old) ==
  IF h = "close" THEN old
  ELSE IF FailsInside(h, fd, tab, done) THEN -1
  ELSE IF h = "open" THEN FreeFd(tab)
  ELSE IF h = "write" /\ fd = STDOUT_FILENO THEN 1
  ELSE IF h = "filesize" THEN 1
  ELSE IF done THEN 1 ELSE 0

\* A handler whose error return inside the locked part leaves without the
\* lock_release.
AfterBody_ErrorReturns(h, failed) == IF failed THEN "user" ELSE "release"

\* Where a handler goes after its body: to lock_release (&filesys_lock), on the
\* error path (lines 213, 329) as on the others (195, 218, 229, 253, 299, 313,
\* 350, 379)
AfterBody(h, failed) == "release"

\* A process makes system call h: the handler runs to its first return or to
\* its lock_acquire (&filesys_lock), whose assertion stops the kernel if the
\* caller holds the lock and which goes on as every lock_acquire does.
Syscall(t, h, fd, name) ==
  /\ Starts(t)
  /\ sys.at[t] = "user"
  /\ IF ReturnsEarly(h, fd, name, sys.fd_table[t])
     THEN /\ sys' = [sys EXCEPT !.ret[t] = EarlyValue(h, fd, @)]
          /\ UNCHANGED <<status, priority, original_priority, wait_on_lock,
                         holding_locks, ready_list, value, waiters, holder, pc, arg,
                         kernel, arrival>>
     ELSE IF holder[FilesysLock] = t
     THEN /\ kernel' = "panic"
          /\ UNCHANGED <<status, priority, original_priority, wait_on_lock,
                         holding_locks, ready_list, value, waiters, holder, pc, arg,
                         arrival, sys>>
     ELSE /\ pc' = [pc EXCEPT ![t] = "la_in"]
          /\ arg' = [arg EXCEPT ![t] = FilesysLock]
          /\ sys' = [sys EXCEPT !.at[t] = "locked", !.call[t] = <<h, fd, name>>]
          /\ UNCHANGED <<status, priority, original_priority, wait_on_lock,
                         holding_locks, ready_list, value, waiters, holder, kernel,
                         arrival>>
  /\ UNCHANGED <<cond_waiters, owned, timer, turn, stage, rounds, noted, proc, tally>>

\* The part of a handler between lock_acquire and lock_release; the file system
\* call in it succeeds or not.
SyscallBody(t) ==
  /\ Runs(t, "idle")
  /\ sys.at[t] = "locked"
  /\ \E done \in BOOLEAN :
       LET h == sys.call[t][1]
           fd == sys.call[t][2]
           name == sys.call[t][3]
           tab == sys.fd_table[t]
       IN sys' = [sys EXCEPT !.fd_table[t] = TableAfter(h, fd, name, tab, done),
                             !.ret[t] = ValueAfter(h, fd, tab, done, @),
                             !.at[t] = AfterBody(h, FailsInside(h, fd, tab, done))]
  /\ UNCHANGED <<status, priority, original_priority, wait_on_lock, holding_locks,
                 wakeup_tick, ready_list, sleep_list, ticks, value, waiters, holder,
                 cond_waiters, pc, arg, sleep_t0, sleep_n, kernel, owned, arrival,
                 turn, stage, rounds, ops, irq, noted, proc, tally>>

\* lock_release (&filesys_lock) of a handler
SyscallRelease(t) ==
  /\ sys.at[t] = "release"
  /\ LockReleaseOp(t, FilesysLock)
  /\ sys' = [sys EXCEPT !.at[t] = "return"]
  /\ UNCHANGED <<turn, stage, rounds, ops, noted, proc, tally>>

\* The handler returns to syscall_handler and the process to user mode.
SyscallReturn(t) ==
  /\ Runs(t, "idle")
  /\ sys.at[t] = "return"
  /\ sys' = [sys EXCEPT !.at[t] = "user"]
  /\ UNCHANGED <<status, priority, original_priority, wait_on_lock, holding_locks,
                 wakeup_tick, ready_list, sleep_list, ticks, value, waiters, holder,
                 cond_waiters, pc, arg, sleep_t0, sleep_n, kernel, owned, arrival,
                 turn, stage, rounds, ops, irq, noted, proc, tally>>

\* A process in user mode lets a tick pass: timer_sleep (1).
SyscallSleep(t) ==
  /\ sys.at[t] = "user"
  /\ TimerSleep(t, 1)

SyscallThreads == 2
MaxOpsSyscall == 3

\* Every process is ready at boot; a process may sleep between its calls.
InitSyscall == Booted(SyscallThreads, 0, [t \in Threads |-> 1], 0, MaxOpsSyscall)

\* Processes that make the system calls which use filesys_lock.
NextSyscall ==
  \/ \E t \in Threads :
       \/ \E h \in Handlers \ ByName : \E fd \in Fds : Syscall(t, h, fd, "")
       \/ \E h \in ByName : \E name \in Names : Syscall(t, h, 0, name)
       \/ SyscallBody(t) \/ SyscallRelease(t) \/ SyscallReturn(t)
       \/ LockAcquireEnter(t) \/ LockAcquireDown(t) \/ LockAcquireFinish(t)
       \/ LockReleaseEnter(t) \/ LockReleaseResume(t)
       \/ SyscallSleep(t) \/ ThreadSleep(t) \/ TimerSleepReturn(t)
  \/ TimerInterrupt

SpecSyscall == InitSyscall /\ [][NextSyscall]_vars

\* C39: every handler that acquires filesys_lock releases it before it returns,
\* on every path, and none calls lock_acquire on it while holding it: the
\* kernel is not stopped by lock_acquire's assertion, the holder of
\* filesys_lock is a thread inside a handler, between its lock_acquire and the
\* end of its lock_release, and when every thread is outside the handlers
\* filesys_lock has no holder and its semaphore is at 1.
C39_FilesysLockReleased ==
  /\ kernel = "ok"
  /\ \A t \in Threads :
       holder[FilesysLock] = t =>
         \/ sys.at[t] \in {"locked", "release"}
         \/ sys.at[t] = "return" /\ pc[t] = "lr_in"
  /\ (\A t \in Threads : sys.at[t] = "user")
       => holder[FilesysLock] = NULL /\ value[LockSema(FilesysLock)] = 1

\* The error returns of open and of filesize inside the locked part have both
\* been taken, and the threads are back in user mode.
C39_ErrorPathsReturned ==
  /\ \A t \in Threads : sys.at[t] = "user"
  /\ \E t, u \in Threads :
       /\ sys.call[t][1] = "open" /\ sys.call[t][3] # "" /\ sys.ret[t] = -1
       /\ sys.call[u][1] = "filesize" /\ sys.call[u][2] >= 2 /\ sys.call[u][2] < FdtSize
       /\ sys.ret[u] = -1

\* Process c is through process_exit: it has come back from its sema_down of
\* reap_sema, or is gone.
LeftProcessExit(at, c) == at[c] \in {"px_end", "dead"}

\* Parent p has reaped child c in process_wait.
ReapedBy(pr, p, c) ==
  /\ <<p, c>> \in pr.waited
  /\ pr.parent[c] = p
  /\ c \notin Range(pr.children[p])

\* C40: a process in process_exit signals wait_sema and does not return from
\* process_exit until its parent has reaped it in process_wait.  A process that
\* is through process_exit has signalled wait_sema and was reaped by its
\* parent; and when process_wait reads the child's status, takes the child off
\* the list and signals reap_sema, three steps in this order, the child is
\* inside process_exit, past its signal and not yet back from the sema_down of
\* reap_sema, and the status read and returned is the child's exit status.
C40_ReapedBeforeExitEnds ==
  /\ \A c \in Threads : ~LeftProcessExit(pc, c)
  /\ [][/\ \A c \in Threads :
             LeftProcessExit(pc', c)
               => /\ c \in proc'.exited
                  /\ \E p \in Threads : ReapedBy(proc', p, c)
        /\ \A p \in Threads :
             LET c == proc.child[p]
             IN /\ (ProcessWaitStatus(p) \/ ProcessWaitRemove(p))
                  => /\ c \in proc.exited
                     /\ pc[c] \in {"px_chk", "px_yld", "px_sd", "px_blk"}
                     /\ proc'.ret[p] = proc.exit_status[c]
                /\ ProcessWaitReap(p)
                  => /\ c \in proc.exited
                     /\ pc[c] \in {"px_chk", "px_yld", "px_sd", "px_blk"}
                     /\ proc'.ret[p] = proc.exit_status[c]
                     /\ ReapedBy(proc', p, c)]_vars

\* A child that exited with status 1 is gone, and its parent's process_wait
\* returned that status.
C40_ChildGoneAfterReap ==
  \E p, c \in Threads :
    /\ pc[c] = "dead" /\ status[c] = "DYING"
    /\ ReapedBy(proc, p, c)
    /\ proc.exit_status[c] = 1
    /\ proc.call[p] = <<"wait", c>> /\ proc.ret[p] = 1
====
